---------------------------- MODULE Spec2Model ----------------------------
(***************************************************************************)
(* SMA Sunny Boy simulator: the register store (SafeDataModel), the Modbus *)
(* request handler (ModbusServer::run) and the simulation engine's tick    *)
(* (SimulationEngine::updateSimulationState), as state machines.           *)
(*                                                                         *)
(* Words.  A Modbus register is a uint16_t.  TLC's integers are 32 bits    *)
(* wide, so a word of the model has radix WordBase (2^15) instead of 2^16; *)
(* every shift and mask of the source is the corresponding division and    *)
(* remainder by WordBase.  A 32-bit value is an integer below WordBase^2.  *)
(* A 64-bit value is a pair <<hi, lo>> of two 32-bit halves, which is      *)
(* hi * WordBase^2 + lo; of a signed 64-bit value the hi half is signed.   *)
(* Addresses keep their width (uint16_t, AddrMod).                         *)
(***************************************************************************)
EXTENDS Integers, Sequences, FiniteSets, TLC

WordBase == 32768
AddrMod == 65536

B2 == WordBase * WordBase

\* The value range of a signed integer of modulus M, and the two casts.
SMin(M) == -(M \div 2)
SMax(M) == (M - 1) \div 2
ToSigned(u, M) == IF u >= (M + 1) \div 2 THEN u - M ELSE u
ToUnsigned(s, M) == s % M

RegisterTypes == {"U16", "S16", "U32", "S32", "U64", "S64"}
RegisterAccesses == {"RO", "RW", "WO"}

\* std::variant<uint16_t, int16_t, uint32_t, int32_t, uint64_t, int64_t>:
\* the alternative it holds and the value.
Variant(kind, val) == [kind |-> kind, val |-> val]

\* num_regs as the configuration loader derives it from the type.
NumRegs(type) ==
    CASE type \in {"U16", "S16"} -> 1
      [] type \in {"U32", "S32"} -> 2
      [] type \in {"U64", "S64"} -> 4

\* struct Register, as the loader builds it (format is display only).
Register(address, type, access, val) ==
    [address |-> address, type |-> type, access |-> access,
     value |-> Variant(type, val), num_regs |-> NumRegs(type)]

---------------------------------------------------------------------------
(* SafeDataModel: logical_register_map and modbus_register_map.            *)

\* (val >> 16) & 0xFFFF and val & 0xFFFF of a 32-bit unsigned value.
HighWord(u) == (u \div WordBase) % WordBase
LowWord(u) == u % WordBase

\* The switch of initialize and of setLogicalValue: the 16-bit registers a
\* value of the register's type is deconstructed into, most significant first.
DeconstructMutLowFirst(type, val) ==
    CASE type = "U16" -> <<val>>
      [] type = "S16" -> <<ToUnsigned(val, WordBase)>>
      [] type = "U32" -> <<LowWord(val), HighWord(val)>>
      [] type = "S32" -> <<LowWord(ToUnsigned(val, B2)), HighWord(ToUnsigned(val, B2))>>
      [] type = "U64" -> <<LowWord(val[2]), HighWord(val[2]), LowWord(val[1]), HighWord(val[1])>>
      [] type = "S64" -> <<LowWord(val[2]), HighWord(val[2]),
                           LowWord(ToUnsigned(val[1], B2)), HighWord(ToUnsigned(val[1], B2))>>

Deconstruct(type, val) ==
    CASE type = "U16" -> <<val>>
      [] type = "S16" -> <<ToUnsigned(val, WordBase)>>
      [] type = "U32" -> <<HighWord(val), LowWord(val)>>
      [] type = "S32" -> <<HighWord(ToUnsigned(val, B2)), LowWord(ToUnsigned(val, B2))>>
      [] type = "U64" -> <<HighWord(val[1]), LowWord(val[1]), HighWord(val[2]), LowWord(val[2])>>
      [] type = "S64" -> <<HighWord(ToUnsigned(val[1], B2)), LowWord(ToUnsigned(val[1], B2)),
                           HighWord(val[2]), LowWord(val[2])>>

\* modbus_register_map[start + i] = words[i]; the key is a uint16_t.
WordAddr(start, i) == (start + i) % AddrMod
StoreWords(mmap, start, words) ==
    [a \in DOMAIN mmap \cup {WordAddr(start, i - 1) : i \in 1..Len(words)} |->
        IF \E i \in 1..Len(words) : a = WordAddr(start, i - 1)
        THEN words[CHOOSE i \in 1..Len(words) : a = WordAddr(start, i - 1)]
        ELSE mmap[a]]

\* std::unordered_map::operator[] on a read: the word, 0 when the key is new.
MapRead(mmap, a) == IF a \in DOMAIN mmap THEN mmap[a] ELSE 0
\* ... which also inserts the keys it reads.
MapTouch(mmap, keys) == [a \in DOMAIN mmap \cup keys |-> MapRead(mmap, a)]

EmptyMap == [a \in {} |-> 0]

\* initialize: every template in list order into the logical map (a later
\* template with the same address replaces the earlier one), its value
\* deconstructed into the word map.  No check of the list is made.
RECURSIVE initializeFrom(_, _, _, _)
initializeFrom(regs, i, lmap, mmap) ==
    IF i > Len(regs) THEN [lmap |-> lmap, mmap |-> mmap]
    ELSE LET t == regs[i]
         IN  initializeFrom(regs, i + 1,
                 [a \in DOMAIN lmap \cup {t.address} |->
                     IF a = t.address THEN t ELSE lmap[a]],
                 StoreWords(mmap, t.address, Deconstruct(t.type, t.value.val)))

initialize(initial_registers) == initializeFrom(initial_registers, 1, EmptyMap, EmptyMap)

\* getRegisterValue: found flag and word.
getRegisterValue(mmap, address) ==
    IF address \in DOMAIN mmap
    THEN [ok |-> TRUE, value |-> mmap[address]]
    ELSE [ok |-> FALSE, value |-> 0]

\* The registers whose range contains a word address (setRegisterValue's loop
\* takes the first one the unordered map's iteration meets).
Owners(lmap, address) ==
    {a \in DOMAIN lmap : address >= a /\ address < a + lmap[a].num_regs}

\* The switch of setRegisterValue: the logical value rebuilt from the words
\* of the register at logical_addr, after the written word is in the map.
Reconstruct(type, mmap, logical_addr, value) ==
    LET w(i) == MapRead(mmap, WordAddr(logical_addr, i))
    IN  CASE type = "U16" -> Variant("U16", value)
          [] type = "S16" -> Variant("S16", ToSigned(value, WordBase))
          [] type = "U32" -> Variant("U32", w(0) * WordBase + w(1))
          [] type = "S32" -> Variant("S32", ToSigned(w(0) * WordBase + w(1), B2))
          [] type = "U64" -> Variant("U64", <<w(0) * WordBase + w(1), w(2) * WordBase + w(3)>>)
          [] type = "S64" -> Variant("S64", <<ToSigned(w(0) * WordBase + w(1), B2),
                                               w(2) * WordBase + w(3)>>)

\* The keys the switch reads with operator[].
ReconstructKeys(type, logical_addr) ==
    IF type \in {"U16", "S16"} THEN {}
    ELSE {WordAddr(logical_addr, i) : i \in 0..(NumRegs(type) - 1)}

NoOwner == -1

\* setRegisterValue with the owner the loop found (NoOwner: none).
setRegisterValueMutNoAccessCheck(lmap, mmap, owner, address, value) ==
    IF owner = NoOwner
    THEN [ok |-> FALSE, lmap |-> lmap, mmap |-> mmap]
    ELSE LET m1 == StoreWords(mmap, address, <<value>>)
             m2 == MapTouch(m1, ReconstructKeys(lmap[owner].type, owner))
         IN  [ok |-> TRUE,
              lmap |-> [lmap EXCEPT ![owner].value =
                           Reconstruct(lmap[owner].type, m1, owner, value)],
              mmap |-> m2]

setRegisterValueMutWholeRegister(lmap, mmap, owner, address, value) ==
    IF owner = NoOwner
    THEN [ok |-> FALSE, lmap |-> lmap, mmap |-> mmap]
    ELSE IF lmap[owner].access = "RO"
    THEN [ok |-> FALSE, lmap |-> lmap, mmap |-> mmap]
    ELSE LET m1 == StoreWords(mmap, owner, [i \in 1..lmap[owner].num_regs |-> value])
         IN  [ok |-> TRUE,
              lmap |-> [lmap EXCEPT ![owner].value =
                           Reconstruct(lmap[owner].type, m1, owner, value)],
              mmap |-> m1]

setRegisterValue(lmap, mmap, owner, address, value) ==
    IF owner = NoOwner
    THEN [ok |-> FALSE, lmap |-> lmap, mmap |-> mmap]
    ELSE IF lmap[owner].access = "RO"
    THEN [ok |-> FALSE, lmap |-> lmap, mmap |-> mmap]
    ELSE LET m1 == StoreWords(mmap, address, <<value>>)
             m2 == MapTouch(m1, ReconstructKeys(lmap[owner].type, owner))
         IN  [ok |-> TRUE,
              lmap |-> [lmap EXCEPT ![owner].value =
                           Reconstruct(lmap[owner].type, m1, owner, value)],
              mmap |-> m2]

\* The owners setRegisterValue's loop can end with.
OwnerChoices(lmap, address) ==
    IF Owners(lmap, address) = {} THEN {NoOwner} ELSE Owners(lmap, address)

\* getLogicalValue: std::optional of the variant.
getLogicalValue(lmap, address) ==
    IF address \in DOMAIN lmap
    THEN [has |-> TRUE, value |-> lmap[address].value]
    ELSE [has |-> FALSE, value |-> Variant("U16", 0)]

setLogicalValueMutAccessCheck(lmap, mmap, address, value) ==
    IF address \notin DOMAIN lmap \/ lmap[address].access = "RO"
    THEN [threw |-> FALSE, lmap |-> lmap, mmap |-> mmap]
    ELSE [threw |-> value.kind # lmap[address].type,
          lmap |-> [lmap EXCEPT ![address].value = value],
          mmap |-> IF value.kind # lmap[address].type THEN mmap
                   ELSE StoreWords(mmap, address,
                            Deconstruct(lmap[address].type, value.val))]

\* setLogicalValue: no access check.  The value is assigned first; std::get
\* of the register's type then throws std::bad_variant_access when the
\* variant holds another alternative, before any word is written.
setLogicalValue(lmap, mmap, address, value) ==
    IF address \notin DOMAIN lmap
    THEN [threw |-> FALSE, lmap |-> lmap, mmap |-> mmap]
    ELSE LET l1 == [lmap EXCEPT ![address].value = value]
         IN  IF value.kind # lmap[address].type
             THEN [threw |-> TRUE, lmap |-> l1, mmap |-> mmap]
             ELSE [threw |-> FALSE, lmap |-> l1,
                   mmap |-> StoreWords(mmap, address,
                                Deconstruct(lmap[address].type, value.val))]

---------------------------------------------------------------------------
(* ModbusServer: the address translation and the libmodbus calls of run.   *)

\* protocolToInternal: the function code is not a parameter.
protocolToInternal(protocol_addr) ==
    IF protocol_addr < 10000
    THEN (protocol_addr + 30000) % AddrMod
    ELSE IF protocol_addr >= 10000 /\ protocol_addr < 20000
    THEN (protocol_addr + 30000) % AddrMod
    ELSE protocol_addr

\* internalToProtocol.
internalToProtocol(internal_addr) ==
    IF internal_addr >= 30000 /\ internal_addr < 40000
    THEN internal_addr - 30000
    ELSE IF internal_addr >= 40000 /\ internal_addr < 50000
    THEN internal_addr - 30000
    ELSE internal_addr

\* The mapping start() allocates: modbus_mapping_new(0, 0, 65536, 0), that
\* is 65536 holding registers (tab_registers) and no input register.
NbRegisters == 65536
NbInputRegisters == 0

\* A decoded request: function code, protocol address, the 16 bits after it
\* (the count; the value of a write single) and the words of a write multiple.
Query(function_code, addr, nb, values) ==
    [function_code |-> function_code, addr |-> addr, nb |-> nb, values |-> values]

\* A response on the wire.
NoReply == [kind |-> "none", code |-> 0, data |-> <<>>]
ExceptionReply(code) == [kind |-> "exception", code |-> code, data |-> <<>>]
DataReply(words) == [kind |-> "data", code |-> 0, data |-> words]
WriteReply == [kind |-> "written", code |-> 0, data |-> <<>>]

\* mb_mapping->tab_registers[a]: allocated zeroed; the model keeps the
\* entries written so far.
TabRead(tab, a) == IF a \in DOMAIN tab THEN tab[a] ELSE 0
TabWrite(tab, start, words) ==
    [a \in DOMAIN tab \cup {start + i - 1 : i \in 1..Len(words)} |->
        IF a >= start /\ a < start + Len(words) THEN words[a - start + 1] ELSE tab[a]]

\* modbus_reply(ctx, query, rc, mb_mapping) of libmodbus on that mapping: it
\* serves a read of holding registers from tab_registers and a read of input
\* registers from the (empty) input table, stores a write into tab_registers,
\* and answers a request outside the table with exception 2, a count outside
\* the protocol's limits with exception 3.  The result is the response and
\* the table after it.
modbus_reply(q, tab) ==
    CASE q.function_code = 3 ->
            [tab |-> tab,
             reply |-> IF q.nb < 1 \/ q.nb > 125 THEN ExceptionReply(3)
                       ELSE IF q.addr + q.nb > NbRegisters THEN ExceptionReply(2)
                       ELSE DataReply([i \in 1..q.nb |-> TabRead(tab, q.addr + i - 1)])]
      [] q.function_code = 4 ->
            [tab |-> tab,
             reply |-> IF q.nb < 1 \/ q.nb > 125 THEN ExceptionReply(3)
                       ELSE IF q.addr + q.nb > NbInputRegisters THEN ExceptionReply(2)
                       ELSE DataReply([i \in 1..q.nb |-> 0])]
      [] q.function_code = 6 ->
            IF q.addr >= NbRegisters
            THEN [tab |-> tab, reply |-> ExceptionReply(2)]
            ELSE [tab |-> TabWrite(tab, q.addr, <<q.nb>>), reply |-> WriteReply]
      [] q.function_code = 16 ->
            IF q.nb < 1 \/ q.nb > 123
            THEN [tab |-> tab, reply |-> ExceptionReply(3)]
            ELSE IF q.addr + q.nb > NbRegisters
            THEN [tab |-> tab, reply |-> ExceptionReply(2)]
            ELSE [tab |-> TabWrite(tab, q.addr, q.values), reply |-> WriteReply]

---------------------------------------------------------------------------
(* SimulationEngine: the tick's arithmetic.  Floating-point quantities are *)
(* whole watts, seconds and watt-hours; a quantity the source computes     *)
(* from the random generator or the clock is an input of the tick.         *)

DeviceStates == {"OFF", "OK", "WARNING", "ERROR"}

\* config.sim_params, the fields the tick's control flow reads.
SimulationParams(interval_ms, max_power, efficiency, fault_probability, reset_hour) ==
    [update_interval_ms |-> interval_ms,
     max_power_watts |-> max_power,
     efficiency_percent |-> efficiency,
     fault_probability_percent |-> fault_probability,
     daily_yield_reset_hour |-> reset_hour]

\* config.identity, the fields the constructor writes.
DeviceIdentity == [serial_number |-> 12345, susy_id |-> 9225, device_class |-> 8001,
                   manufacturer |-> 461, software_package |-> 2]

\* The constructor's setLogicalValue calls, in order.
ConstructorWrites(params) ==
    << <<30003, Variant("U32", DeviceIdentity.susy_id)>>,
       <<30005, Variant("U32", DeviceIdentity.serial_number)>>,
       <<30051, Variant("U32", DeviceIdentity.device_class)>>,
       <<30053, Variant("U32", DeviceIdentity.susy_id)>>,
       <<30055, Variant("U32", DeviceIdentity.manufacturer)>>,
       <<30057, Variant("U32", DeviceIdentity.serial_number)>>,
       <<30059, Variant("U32", DeviceIdentity.software_package)>>,
       <<30231, Variant("U32", params.max_power_watts)>> >>

RECURSIVE ApplyWrites(_, _, _, _)
ApplyWrites(writes, i, lmap, mmap) ==
    IF i > Len(writes) THEN [lmap |-> lmap, mmap |-> mmap]
    ELSE LET r == setLogicalValue(lmap, mmap, writes[i][1], writes[i][2])
         IN  ApplyWrites(writes, i + 1, r.lmap, r.mmap)

\* The store once main has initialized it and constructed the engine.
StoreAfterConstruction(regs, params) ==
    ApplyWrites(ConstructorWrites(params), 1, initialize(regs).lmap, initialize(regs).mmap)

\* value += n on a uint64_t.
AddU64(v, n) == <<(v[1] + (v[2] + n) \div B2) % B2, (v[2] + n) % B2>>

\* op_state_val ? std::get<uint32_t>(*op_state_val) : dflt; std::get throws
\* when the variant holds another alternative.
GetOr(opt, kind, dflt) ==
    IF ~opt.has THEN [threw |-> FALSE, val |-> dflt]
    ELSE IF opt.value.kind # kind THEN [threw |-> TRUE, val |-> dflt]
    ELSE [threw |-> FALSE, val |-> opt.value.val]

\* The state machine of the tick.  fault: the outcome of the comparison
\* fault_dis(rng) < fault_probability_percent * temp_factor, which a
\* probability of 0 never lets succeed.
NextDeviceStateMutFaultFirst(state, op_state, ack_error, fault) ==
    IF ack_error = 26 /\ state = "ERROR" THEN "OK"
    ELSE IF state # "ERROR" /\ fault THEN "ERROR"
    ELSE IF op_state = 381 THEN "OFF"
    ELSE IF state # "ERROR" /\ op_state = 295 THEN "OK"
    ELSE state

NextDeviceStateMutStopFirst(state, op_state, ack_error, fault) ==
    IF op_state = 381 THEN "OFF"
    ELSE IF ack_error = 26 /\ state = "ERROR" THEN "OK"
    ELSE IF state # "ERROR"
    THEN IF fault THEN "ERROR"
         ELSE IF op_state = 295 THEN "OK"
         ELSE state
    ELSE state

NextDeviceStateMutNoAck(state, op_state, ack_error, fault) ==
    IF op_state = 381 /\ state # "ERROR" THEN "OFF"
    ELSE IF state # "ERROR"
    THEN IF fault THEN "ERROR"
         ELSE IF op_state = 295 THEN "OK"
         ELSE state
    ELSE state

NextDeviceStateMutWarning(state, op_state, ack_error, fault) ==
    IF ack_error = 26 /\ state = "ERROR" THEN "OK"
    ELSE IF op_state = 381 THEN "OFF"
    ELSE IF state # "ERROR"
    THEN IF fault THEN "WARNING"
         ELSE IF op_state = 295 THEN "OK"
         ELSE state
    ELSE state

NextDeviceState(state, op_state, ack_error, fault) ==
    IF ack_error = 26 /\ state = "ERROR" THEN "OK"
    ELSE IF op_state = 381 THEN "OFF"
    ELSE IF state # "ERROR"
    THEN IF fault THEN "ERROR"
         ELSE IF op_state = 295 THEN "OK"
         ELSE state
    ELSE state

\* calculatePowerOutput in fixed point: factors in thousandths, times of day
\* in thousandths of an hour, the result in whole watts.
\* cos(2 pi day / 365) and sin(2 pi (day - 80) / 365) in thousandths, for the
\* days of the year the calls are made on: 0, 80 and 171.
CosOfYear(day_of_year) ==
    CASE day_of_year = 0 -> 1000 [] day_of_year = 80 -> 192 [] day_of_year = 171 -> -980
SinOfSeason(day_of_year) ==
    CASE day_of_year = 0 -> -981 [] day_of_year = 80 -> 0 [] day_of_year = 171 -> 1000

\* static_cast of a quotient that may be negative: the fraction is dropped.
Quotient(n, d) == IF n >= 0 THEN n \div d ELSE -((-n) \div d)

SeasonalFactor(day_of_year) == 800 + Quotient(400 * SinOfSeason(day_of_year), 1000)
Sunrise(day_of_year) == 6000 + 2 * CosOfYear(day_of_year)
Sunset(day_of_year) == 18000 + 2 * CosOfYear(day_of_year)

\* exp(-y) for y >= 0 in thousandths: the reciprocal of the series of exp(y)
\* up to the term of degree 8.
RECURSIVE ExpSeries(_, _, _)
ExpSeries(y, k, term) ==
    IF k > 8 THEN 0
    ELSE LET t == (term * y) \div (k * 1000) IN t + ExpSeries(y, k + 1, t)
ExpNeg(y) == 1000000 \div (1000 + ExpSeries(y, 1, 1000))

\* exp(-2 normalized_time^2), normalized_time = 2 time_from_noon / day_length.
SolarFactor(hour_of_day, day_of_year) ==
    LET day_length == Sunset(day_of_year) - Sunrise(day_of_year)
        noon == (Sunrise(day_of_year) + Sunset(day_of_year)) \div 2
        normalized_time == Quotient(2000 * (hour_of_day - noon), day_length)
    IN  ExpNeg((2 * normalized_time * normalized_time) \div 1000)

\* hour_of_day < sunrise || hour_of_day > sunset.
OutsideDaylight(hour_of_day, day_of_year) ==
    hour_of_day < Sunrise(day_of_year) \/ hour_of_day > Sunset(day_of_year)

\* The value calculatePowerOutput returns; weather_multiplier in percent,
\* random_variation in thousandths (900 .. 1100).
calculatePowerOutput(params, weather_multiplier, hour_of_day, day_of_year, random_variation) ==
    IF OutsideDaylight(hour_of_day, day_of_year) THEN 0
    ELSE LET solar == (params.max_power_watts * SolarFactor(hour_of_day, day_of_year)) \div 1000
             seasonal == (solar * SeasonalFactor(day_of_year)) \div 1000
             weather == (seasonal * weather_multiplier) \div 100
         IN  (weather * random_variation) \div 1000

\* Step 3 of the tick: the status enumerators and the powers for the state.
\* power: what calculatePowerOutput returns; derating: max(0.5,
\* derating_factor) in thousandths when internal_temp > 65, else 1000;
\* event: rand() % 10.
TickStatusMutErrorClosed(state, params, power, derating, event) ==
    IF state = "OK"
    THEN IF power > 100
         THEN [ac_power_total |-> (power * derating) \div 1000,
               dc_power_total |-> (((power * derating) \div 1000) * 100) \div params.efficiency_percent,
               device_status_enum |-> 307, detailed_op_status |-> 295,
               grid_contactor_enum |-> 51,
               derating_status |-> IF derating < 1000 THEN 557 ELSE 302,
               event_number |-> 0]
         ELSE [ac_power_total |-> power, dc_power_total |-> 0,
               device_status_enum |-> 307, detailed_op_status |-> 1393,
               grid_contactor_enum |-> 311, derating_status |-> 302,
               event_number |-> 0]
    ELSE IF state = "ERROR"
    THEN [ac_power_total |-> 0, dc_power_total |-> 0,
          device_status_enum |-> 35, detailed_op_status |-> 1392,
          grid_contactor_enum |-> 51, derating_status |-> 302,
          event_number |-> 1001 + event]
    ELSE [ac_power_total |-> 0, dc_power_total |-> 0,
          device_status_enum |-> 303, detailed_op_status |-> 381,
          grid_contactor_enum |-> 311, derating_status |-> 302,
          event_number |-> 0]

TickStatus(state, params, power, derating, event) ==
    IF state = "OK"
    THEN IF power > 100
         THEN [ac_power_total |-> (power * derating) \div 1000,
               dc_power_total |-> (((power * derating) \div 1000) * 100) \div params.efficiency_percent,
               device_status_enum |-> 307, detailed_op_status |-> 295,
               grid_contactor_enum |-> 51,
               derating_status |-> IF derating < 1000 THEN 557 ELSE 302,
               event_number |-> 0]
         ELSE [ac_power_total |-> power, dc_power_total |-> 0,
               device_status_enum |-> 307, detailed_op_status |-> 1393,
               grid_contactor_enum |-> 311, derating_status |-> 302,
               event_number |-> 0]
    ELSE IF state = "ERROR"
    THEN [ac_power_total |-> 0, dc_power_total |-> 0,
          device_status_enum |-> 35, detailed_op_status |-> 1392,
          grid_contactor_enum |-> 311, derating_status |-> 302,
          event_number |-> 1001 + event]
    ELSE [ac_power_total |-> 0, dc_power_total |-> 0,
          device_status_enum |-> 303, detailed_op_status |-> 381,
          grid_contactor_enum |-> 311, derating_status |-> 302,
          event_number |-> 0]

\* connection_timer > 3600.
ConnectionPeriod == 3600

\* static_cast<uint64_t>(seconds_per_tick).
WholeSeconds(params) == params.update_interval_ms \div 1000
\* static_cast<uint64_t>(energy_wh), energy_wh = ac_power_total * seconds / 3600.
WholeWattHours(params, ac_power_total) ==
    (ac_power_total * params.update_interval_ms) \div 3600000

\* The registers the tick reads its accumulators from, in order, with the
\* alternative std::get asks for and the local that takes the value.
AccumulatorReads ==
    << <<30521, "U64", "op_time">>, <<30525, "U64", "feed_time">>,
       <<30513, "U64", "total_yield">>, <<30517, "U64", "daily_yield">>,
       <<30599, "U32", "grid_connections">> >>

\* if (ac_power_total > 100) { ... }: the accumulators of a producing tick.
\* Gives the locals and the static connection_timer.
AccumulateMutAlways(loc, params, timer) ==
    LET wh == WholeWattHours(params, loc.status.ac_power_total)
        closed == loc.status.grid_contactor_enum = 51
        hour == closed /\ timer + 1 > ConnectionPeriod
    IN  [loc |-> [loc EXCEPT !.feed_time = AddU64(@, WholeSeconds(params)),
                             !.total_yield = AddU64(@, wh),
                             !.daily_yield = AddU64(@, wh),
                             !.grid_connections = IF hour THEN (@ + 1) % B2 ELSE @],
         timer |-> IF ~closed THEN timer ELSE IF hour THEN 0 ELSE timer + 1]

Accumulate(loc, params, timer) ==
    IF loc.status.ac_power_total > 100
    THEN LET wh == WholeWattHours(params, loc.status.ac_power_total)
             closed == loc.status.grid_contactor_enum = 51
             hour == closed /\ timer + 1 > ConnectionPeriod
         IN  [loc |-> [loc EXCEPT !.feed_time = AddU64(@, WholeSeconds(params)),
                                  !.total_yield = AddU64(@, wh),
                                  !.daily_yield = AddU64(@, wh),
                                  !.grid_connections = IF hour THEN (@ + 1) % B2 ELSE @],
              timer |-> IF ~closed THEN timer ELSE IF hour THEN 0 ELSE timer + 1]
    ELSE [loc |-> loc, timer |-> timer]

\* What calculateGridVoltage, calculateGridFrequency and the temperature
\* smoothing give a tick, already scaled as published (FIX2, FIX2, TEMP).
\* The loader leaves grid_voltage_nominal, grid_frequency_nominal, the two
\* variation parameters and ambient_temp_celsius unset, so these are
\* whatever the uninitialized doubles make them.  imbalance: the two draws
\* of imbalance_dis for L1 and L2, in percent (-2 .. 2).
Measurement(v1, v2, v3, frequency, internal_temp, imbalance) ==
    [voltage |-> <<v1, v2, v3>>, frequency |-> frequency, internal_temp |-> internal_temp,
     imbalance |-> imbalance]

\* The strings' linear I-V model, voltages in 1/100 V and currents in mA;
\* share: the string's part of the DC power in percent.
StringVoltage(base, span, dc_power, share, params) ==
    IF dc_power * share > 0
    THEN base * 100 + (span * dc_power * 100) \div params.max_power_watts
    ELSE 0
StringCurrent(base, span, dc_power, share, params) ==
    IF dc_power * share > 0
    THEN (dc_power * share * 1000) \div StringVoltage(base, span, dc_power, share, params)
    ELSE 0
\* power_factor in thousandths.
PowerFactor(ac_power_total, params) ==
    IF ac_power_total > 100
    THEN 980 + (20 * ac_power_total) \div params.max_power_watts
    ELSE 990
\* The whole part of the square root of n, searched between lo and hi.
RECURSIVE WholeSqrt(_, _, _)
WholeSqrt(n, lo, hi) ==
    IF lo >= hi THEN lo
    ELSE LET mid == (lo + hi + 1) \div 2
         IN  IF mid * mid <= n THEN WholeSqrt(n, mid, hi) ELSE WholeSqrt(n, lo, mid - 1)
\* ac_power_total * tan(acos(power_factor)).
ReactivePower(ac_power_total, pf) ==
    (ac_power_total * WholeSqrt(1000000 - pf * pf, 0, 1000)) \div pf

\* Step 9 of the tick: the setLogicalValue calls, in order.  loc holds the
\* tick's locals; current_time is time(0) as a uint32_t.
PublishList(loc, params, current_time) ==
    LET ac == loc.status.ac_power_total
        \* ac_power_l1 = (ac_power_total / 3.0) * (1.0 + imbalance), the same
        \* for l2, ac_power_l3 = ac_power_total - ac_power_l1 - ac_power_l2;
        \* each is cast to int32_t when it is published.
        l1 == Quotient(ac * (100 + loc.meas.imbalance[1]), 300)
        l2 == Quotient(ac * (100 + loc.meas.imbalance[2]), 300)
        l3 == Quotient(ac * (100 - loc.meas.imbalance[1] - loc.meas.imbalance[2]), 300)
        pf == PowerFactor(ac, params)
    IN << <<30197, Variant("U32", loc.status.event_number)>>,
          <<30201, Variant("U32", loc.status.device_status_enum)>>,
          <<30217, Variant("U32", loc.status.grid_contactor_enum)>>,
          <<30219, Variant("U32", loc.status.derating_status)>>,
          <<30229, Variant("U32", current_time % B2)>>,
          <<40029, Variant("U32", loc.status.detailed_op_status)>>,
          <<30775, Variant("S32", ac)>>,
          <<30777, Variant("S32", l1)>>,
          <<30779, Variant("S32", l2)>>,
          <<30781, Variant("S32", l3)>>,
          <<30805, Variant("S32", ReactivePower(ac, pf))>>,
          <<30813, Variant("S32", (ac * 1000) \div pf)>>,
          <<30769, Variant("S32", StringCurrent(350, 250, loc.status.dc_power_total, 52, params))>>,
          <<30771, Variant("S32", StringVoltage(350, 250, loc.status.dc_power_total, 52, params))>>,
          <<30773, Variant("S32", (loc.status.dc_power_total * 52) \div 100)>>,
          <<30957, Variant("S32", StringCurrent(360, 240, loc.status.dc_power_total, 48, params))>>,
          <<30959, Variant("S32", StringVoltage(360, 240, loc.status.dc_power_total, 48, params))>>,
          <<30961, Variant("S32", (loc.status.dc_power_total * 48) \div 100)>>,
          <<30783, Variant("U32", loc.meas.voltage[1])>>,
          <<30785, Variant("U32", loc.meas.voltage[2])>>,
          <<30787, Variant("U32", loc.meas.voltage[3])>>,
          <<30797, Variant("U32", (l1 * 100000) \div loc.meas.voltage[1])>>,
          <<30803, Variant("U32", loc.meas.frequency)>>,
          <<30949, Variant("U32", pf)>>,
          <<30953, Variant("S32", loc.meas.internal_temp)>>,
          <<30521, Variant("U64", loc.op_time)>>,
          <<30525, Variant("U64", loc.feed_time)>>,
          <<30513, Variant("U64", loc.total_yield)>>,
          <<30517, Variant("U64", loc.daily_yield)>>,
          <<30599, Variant("U32", loc.grid_connections)>> >>

---------------------------------------------------------------------------
(* State.                                                                  *)

VARIABLES
    logical_register_map,   \* SafeDataModel: address -> Register
    modbus_register_map,    \* SafeDataModel: word address -> word
    call,                   \* the store operation a caller made last, with its result
    tab_registers,          \* ModbusServer: mb_mapping->tab_registers
    h_pc,                   \* run: where the server thread is
    query,                  \* run: the request being served
    h_internal_addr,        \* run: internal_addr
    h_i,                    \* run: the loop index i
    h_all_valid,            \* run: all_valid
    h_fetched,              \* run: the words getRegisterValue gave for this request
    h_reply,                \* the response sent to the request
    h_served,               \* the number of requests received
    config,                 \* SimulationEngine: config.sim_params
    now,                    \* the local time time(0) and localtime give
    current_state,          \* SimulationEngine: current_state
    current_weather_model_index,  \* SimulationEngine: current_weather_model_index
    last_weather_change_time,     \* SimulationEngine: last_weather_change_time
    last_daily_reset_day,   \* SimulationEngine: last_daily_reset_day
    connection_timer,       \* updateSimulationState: static int connection_timer
    e_pc,                   \* updateSimulationState: where the simulation thread is
    e_i,                    \* updateSimulationState: the next register to read or publish
    e_loc,                  \* updateSimulationState: its local variables
    e_ticks,                \* the number of ticks started
    data_mutex,             \* SafeDataModel: the thread holding data_mutex, or "free"
    in_call,                \* for each thread, the store operation it is calling
    e_running,              \* SimulationEngine: running
    e_threads,              \* SimulationEngine: the threads of run started and not joined
    s_running,              \* ModbusServer: running
    s_pc,                   \* ModbusServer::run: the loop test or blocking call the
                            \* server thread is at
    server_socket,          \* ModbusServer: server_socket
    connection,             \* ModbusServer: the client connection of ctx
    m_pc,                   \* main and signal_handler: where the main thread is
    tick_began,             \* history: current_state, and the word of last_written at
                            \* address 40009 (-1: none), when the tick in progress started
    last_written,           \* history: word address -> the word a client's write stored
                            \* there, until another write to the address
    held                    \* history: register address -> the word tuples stored at the
                            \* register's addresses while the read request in progress
                            \* was served

store == <<logical_register_map, modbus_register_map>>
hvars == <<tab_registers, h_pc, query, h_internal_addr, h_i, h_all_valid,
           h_fetched, h_reply, h_served>>
lockvars == <<data_mutex, in_call>>
lifevars == <<e_running, e_threads, s_running, s_pc, server_socket, connection, m_pc>>
wvars == <<current_weather_model_index, last_weather_change_time>>
evars == <<config, now, current_state, last_daily_reset_day, connection_timer,
           e_pc, e_i, e_loc, e_ticks, tick_began, wvars>>
vars == <<logical_register_map, modbus_register_map, call, tab_registers, h_pc,
          query, h_internal_addr, h_i, h_all_valid, h_fetched, h_reply, h_served,
          config, now, current_state, last_daily_reset_day, connection_timer,
          e_pc, e_i, e_loc, e_ticks, tick_began, current_weather_model_index,
          last_weather_change_time, last_written, held, data_mutex, in_call,
          e_running, e_threads, s_running, s_pc, server_socket, connection, m_pc>>
history == <<last_written, held>>

NoValue == Variant("none", 0)
NoCall == [op |-> "none", address |-> 0, word |-> 0, arg |-> NoValue,
           ok |-> FALSE, ret |-> NoValue]

\* The locals of updateSimulationState before the tick has set them.
NoOptional == [has |-> FALSE, value |-> NoValue]
NoLocals ==
    [op_state_val |-> NoOptional, ack_error_val |-> NoOptional,
     op_state |-> 0, ack_error |-> 0,
     status |-> TickStatus("OFF", SimulationParams(0, 1, 1, 0, 0), 0, 1000, 0),
     meas |-> Measurement(1, 1, 1, 0, 0, <<0, 0>>),
     op_time |-> <<0, 0>>, feed_time |-> <<0, 0>>, total_yield |-> <<0, 0>>,
     daily_yield |-> <<0, 0>>, grid_connections |-> 0]

\* No tick in progress.
NoTick == [state |-> "none", command |-> -1]

\* Configurations and times of day the process runs under.  The loader does
\* not set daily_yield_reset_hour: it is whatever the uninitialized int holds.
ConfigInputs == {SimulationParams(1000, 5000, 97, 0, 0),
                 SimulationParams(1000, 5000, 97, 5, 12)}
ClockInputs == {[mday |-> 3, hour |-> 0, time |-> 86400]}

\* The simulation thread before its first tick.
EngineConstructedWith(params) ==
    /\ config = params
    /\ now \in ClockInputs
    /\ current_state = "OK"
    /\ current_weather_model_index = 0
    /\ last_weather_change_time = 0
    /\ last_daily_reset_day = -1
    /\ connection_timer = 0
    /\ e_pc = "idle"
    /\ e_i = 0
    /\ e_loc = NoLocals
    /\ e_ticks = 0
    /\ tick_began = NoTick

EngineConstructed == \E params \in ConfigInputs : EngineConstructedWith(params)

NoHistory ==
    /\ last_written = EmptyMap
    /\ held = EmptyMap

\* The threads of the store's callers.
Threads == {"engine", "server"}
NotCalling == [pc |-> "out", op |-> "none", depth |-> 0]

\* The process after main has started the simulation thread and the server
\* thread and installed the signal handlers; a client is connected and the
\* server thread is in modbus_receive; no store operation is in progress.
ProcessRunning ==
    /\ data_mutex = "free"
    /\ in_call = [t \in Threads |-> NotCalling]
    /\ e_running = TRUE
    /\ e_threads = 1
    /\ s_running = TRUE
    /\ s_pc = "receive"
    /\ server_socket = "listening"
    /\ connection = "open"
    /\ m_pc = "loop"

---------------------------------------------------------------------------
(* Register lists a configuration file can hold.  The loader checks the    *)
(* type, format and access words only: lists with overlapping ranges or a  *)
(* repeated address are loaded like any other.                             *)

ListU16 == << Register(40001, "U16", "RW", 7) >>
ListS16 == << Register(40001, "S16", "WO", -2) >>
ListS32 == << Register(30775, "S32", "RO", -5), Register(40003, "S32", "RW", 0) >>
ListU64 == << Register(40005, "U64", "RW", <<0, 0>>) >>
ListS64 == << Register(40005, "S64", "WO", <<7, WordBase>>) >>
ListMixed == << Register(30201, "U32", "RO", 307), Register(40009, "U32", "RW", 295),
                Register(40011, "U16", "RW", 0) >>
\* 40010 belongs to the U32 at 40009 and is the U16's address.
ListOverlap == << Register(40009, "U32", "RW", 381), Register(40010, "U16", "RO", 5) >>
\* The same address twice: the second template replaces the first.
ListRepeated == << Register(40009, "U32", "RW", WordBase + 2), Register(40009, "U16", "RO", 5) >>

DisjointLists == {ListU16, ListS16, ListS32, ListU64, ListS64, ListMixed}
RegisterLists == DisjointLists \cup {ListOverlap, ListRepeated}

\* Values a caller passes: words, and for each alternative of the variant
\* two values, the extremes of its range among them.
WordInputs == {381, WordBase - 1}
ValuesOf(kind) ==
    CASE kind = "U16" -> {1, WordBase - 1}
      [] kind = "S16" -> {-1, SMin(WordBase)}
      [] kind = "U32" -> {WordBase + 2, B2 - 1}
      [] kind = "S32" -> {-2, SMin(B2) + 3}
      [] kind = "U64" -> {<<WordBase + 2, 3 * WordBase + 4>>, <<B2 - 1, B2 - 1>>}
      [] kind = "S64" -> {<<-1, B2 - 1>>, <<SMin(B2), 5>>}
\* ... and one value of another alternative than the register's.
OtherKind(kind) == IF kind = "U32" THEN "U16" ELSE "U32"
ValueInputs(lmap, address) ==
    IF address \in DOMAIN lmap
    THEN {Variant(lmap[address].type, v) : v \in ValuesOf(lmap[address].type)} \cup
         {Variant(OtherKind(lmap[address].type), 1)}
    ELSE {Variant("U32", 1)}

\* Addresses a caller passes: every word of every register, and the
\* addresses next to each range.
CallAddrs ==
    UNION {{a - 1, a + logical_register_map[a].num_regs} \cup
           {a + i : i \in 0..(logical_register_map[a].num_regs - 1)} :
           a \in DOMAIN logical_register_map}

---------------------------------------------------------------------------
(* The store's operations, called one at a time (each holds data_mutex for *)
(* its whole body).                                                        *)

\* The server thread before it has received a request.
HandlerIdle ==
    /\ tab_registers = EmptyMap
    /\ h_pc = "receive"
    /\ query = Query(0, 0, 0, <<>>)
    /\ h_internal_addr = 0
    /\ h_i = 0
    /\ h_all_valid = TRUE
    /\ h_fetched = <<>>
    /\ h_reply = NoReply
    /\ h_served = 0

InitStore ==
    /\ \E regs \in RegisterLists :
          /\ logical_register_map = initialize(regs).lmap
          /\ modbus_register_map = initialize(regs).mmap
    /\ call = NoCall
    /\ HandlerIdle
    /\ EngineConstructedWith(SimulationParams(1000, 5000, 97, 0, 0))
    /\ NoHistory
    /\ ProcessRunning

CallGetRegisterValue ==
    \E address \in CallAddrs :
       LET r == getRegisterValue(modbus_register_map, address)
       IN  /\ call' = [NoCall EXCEPT !.op = "getRegisterValue", !.address = address,
                                      !.ok = r.ok, !.word = r.value]
           /\ UNCHANGED <<lockvars, lifevars, store, hvars, evars, history>>

CallSetRegisterValue ==
    \E address \in CallAddrs, value \in WordInputs :
       \E owner \in OwnerChoices(logical_register_map, address) :
          LET r == setRegisterValue(logical_register_map, modbus_register_map,
                                    owner, address, value)
          IN  /\ logical_register_map' = r.lmap
              /\ modbus_register_map' = r.mmap
              /\ call' = [NoCall EXCEPT !.op = "setRegisterValue", !.address = address,
                                         !.word = value, !.ok = r.ok]
              /\ UNCHANGED <<lockvars, lifevars, hvars, evars, history>>

CallGetLogicalValue ==
    \E address \in CallAddrs :
       LET r == getLogicalValue(logical_register_map, address)
       IN  /\ call' = [NoCall EXCEPT !.op = "getLogicalValue", !.address = address,
                                      !.ok = r.has,
                                      !.ret = IF r.has THEN r.value ELSE NoValue]
           /\ UNCHANGED <<lockvars, lifevars, store, hvars, evars, history>>

CallSetLogicalValue ==
    \E address \in CallAddrs :
     \E value \in ValueInputs(logical_register_map, address) :
       LET r == setLogicalValue(logical_register_map, modbus_register_map, address, value)
       IN  /\ logical_register_map' = r.lmap
           /\ modbus_register_map' = r.mmap
           /\ call' = [NoCall EXCEPT !.op = "setLogicalValue", !.address = address,
                                      !.arg = value, !.ok = ~r.threw]
           /\ UNCHANGED <<lockvars, lifevars, hvars, evars, history>>

NextStore ==
    \/ CallGetRegisterValue
    \/ CallSetRegisterValue
    \/ CallGetLogicalValue
    \/ CallSetLogicalValue

SpecStore == InitStore /\ [][NextStore]_vars

---------------------------------------------------------------------------
(* data_mutex: the simulation thread and the server thread call the store  *)
(* concurrently; every operation constructs one lock_guard on data_mutex   *)
(* as its first statement and releases it when the operation is left.      *)

\* An uncaught exception in the simulation thread ends the process.
Alive == e_pc # "terminated"

\* The store operations each thread calls.
CallsOf(t) ==
    IF t = "engine" THEN {"getLogicalValue", "setLogicalValue"}
                    ELSE {"getRegisterValue", "setRegisterValue"}

\* The store operations an operation calls, or the mutexes other than
\* data_mutex it locks, inside its body: the variant in which setLogicalValue
\* reads the old value through getLogicalValue ...
StoreCallsMutNested(op) == IF op = "setLogicalValue" THEN {"getLogicalValue"} ELSE {}

\* ... and the source's: none.
StoreCalls(op) == {}

ListLock == << Register(30775, "S32", "RO", -5), Register(40009, "U32", "RW", 295) >>

InitLock ==
    /\ logical_register_map = initialize(ListLock).lmap
    /\ modbus_register_map = initialize(ListLock).mmap
    /\ call = NoCall
    /\ HandlerIdle
    /\ EngineConstructedWith(SimulationParams(1000, 5000, 97, 0, 0))
    /\ NoHistory
    /\ ProcessRunning

\* A thread enters a store operation: the lock_guard's constructor is next.
LCall(t) ==
    /\ Alive
    /\ in_call[t].pc = "out"
    /\ \E op \in CallsOf(t) :
          in_call' = [in_call EXCEPT ![t] = [pc |-> "wait", op |-> op, depth |-> 0]]
    /\ UNCHANGED <<data_mutex, lifevars, store, call, hvars, evars, history>>

\* std::lock_guard<std::mutex> lock(data_mutex): blocks while another holds it.
LAcquire(t) ==
    /\ Alive
    /\ in_call[t].pc = "wait"
    /\ data_mutex = "free"
    /\ data_mutex' = t
    /\ in_call' = [in_call EXCEPT ![t].pc = "in", ![t].depth = @ + 1]
    /\ UNCHANGED <<lifevars, store, call, hvars, evars, history>>

\* The body of the operation and its return, which destroys the lock_guard.
\* An exception leaving setLogicalValue is not caught in the simulation
\* thread: the process is terminated, with or without unwinding the stack.
LBody(t) ==
    /\ Alive
    /\ in_call[t].pc = "in"
    /\ LET op == in_call[t].op
           returned == [in_call EXCEPT ![t] = NotCalling]
       IN  IF StoreCalls(op) # {}
           THEN /\ \E inner \in StoreCalls(op) :
                      in_call' = [in_call EXCEPT ![t].pc = "wait", ![t].op = inner]
                /\ UNCHANGED <<data_mutex, store, call, e_pc>>
           ELSE \E address \in CallAddrs :
                  CASE op = "getRegisterValue" ->
                         LET r == getRegisterValue(modbus_register_map, address)
                         IN  /\ call' = [NoCall EXCEPT !.op = op, !.address = address,
                                                        !.ok = r.ok, !.word = r.value]
                             /\ data_mutex' = "free"
                             /\ in_call' = returned
                             /\ UNCHANGED <<store, e_pc>>
                    [] op = "setRegisterValue" ->
                         \E value \in WordInputs :
                          \E owner \in OwnerChoices(logical_register_map, address) :
                            LET r == setRegisterValue(logical_register_map,
                                        modbus_register_map, owner, address, value)
                            IN  /\ logical_register_map' = r.lmap
                                /\ modbus_register_map' = r.mmap
                                /\ call' = [NoCall EXCEPT !.op = op, !.address = address,
                                                           !.word = value, !.ok = r.ok]
                                /\ data_mutex' = "free"
                                /\ in_call' = returned
                                /\ UNCHANGED e_pc
                    [] op = "getLogicalValue" ->
                         LET r == getLogicalValue(logical_register_map, address)
                         IN  /\ call' = [NoCall EXCEPT !.op = op, !.address = address,
                                             !.ok = r.has,
                                             !.ret = IF r.has THEN r.value ELSE NoValue]
                             /\ data_mutex' = "free"
                             /\ in_call' = returned
                             /\ UNCHANGED <<store, e_pc>>
                    [] op = "setLogicalValue" ->
                         \E value \in ValueInputs(logical_register_map, address) :
                            LET r == setLogicalValue(logical_register_map,
                                        modbus_register_map, address, value)
                            IN  /\ logical_register_map' = r.lmap
                                /\ modbus_register_map' = r.mmap
                                /\ call' = [NoCall EXCEPT !.op = op, !.address = address,
                                                           !.arg = value, !.ok = ~r.threw]
                                /\ in_call' = returned
                                /\ IF r.threw
                                   THEN /\ e_pc' = "terminated"
                                        /\ data_mutex' \in {"free", t}
                                   ELSE /\ data_mutex' = "free"
                                        /\ UNCHANGED e_pc
    /\ UNCHANGED <<lifevars, hvars, config, wvars, now, current_state,
                   last_daily_reset_day, connection_timer, e_i, e_loc, e_ticks,
                   tick_began, history>>

NextLock ==
    \E t \in Threads :
       \/ LCall(t)
       \/ LAcquire(t)
       \/ LBody(t)

SpecLock == InitLock /\ [][NextLock]_vars

\* Both threads wait for data_mutex and its holder is one of them.
BothWaitForever ==
    /\ data_mutex # "free"
    /\ \A t \in Threads : in_call[t].pc = "wait"

\* C24: while the process lives, data_mutex is held by a thread exactly
\* while that thread is inside the body of a store operation, having
\* acquired it once for that operation; the holder never waits for a lock
\* nor is inside a second store operation, a thread that has returned does
\* not hold the mutex, and the two threads never both wait for the mutex
\* while it is held.
C24_SingleLock ==
    /\ Alive =>
          \A t \in Threads :
             /\ (data_mutex = t) <=> (in_call[t].pc = "in")
             /\ in_call[t].pc = "in" => in_call[t].depth = 1
             /\ in_call[t].pc # "in" => in_call[t].depth = 0
    /\ ~BothWaitForever

\* The server thread waits for the mutex the simulation thread holds inside
\* setLogicalValue.
C24_Witness ==
    /\ data_mutex = "engine"
    /\ in_call["engine"] = [pc |-> "in", op |-> "setLogicalValue", depth |-> 1]
    /\ in_call["server"].pc = "wait"
    /\ in_call["server"].op = "setRegisterValue"
    /\ logical_register_map[40009].value = Variant("U32", B2 - 1)

---------------------------------------------------------------------------
(* The running process: main initializes the store, constructs the engine  *)
(* and starts the simulation thread and the server thread.                 *)

\* The register lists of the running system: the two command registers, a
\* status register and the operating-time counter; the second list also has
\* a U16 at 40010, the low word of the U32 at 40009.
ListSystem == << Register(30201, "U32", "RO", 307),
                 Register(30521, "U64", "RO", <<0, WordBase - 1>>),
                 Register(40009, "U32", "RW", 295),
                 Register(40011, "U32", "RW", 0) >>
ListSystemOverlap == << Register(30521, "U64", "RO", <<0, WordBase - 1>>),
                        Register(40009, "U32", "RW", 295),
                        Register(40010, "U16", "RW", 295),
                        Register(40011, "U32", "RW", 0) >>
SystemLists == {ListSystem, ListSystemOverlap}

InitSystem ==
    /\ EngineConstructed
    /\ \E regs \in SystemLists :
          /\ logical_register_map = StoreAfterConstruction(regs, config).lmap
          /\ modbus_register_map = StoreAfterConstruction(regs, config).mmap
    /\ call = NoCall
    /\ HandlerIdle
    /\ NoHistory
    /\ ProcessRunning


---------------------------------------------------------------------------
(* ModbusServer::run: the inner loop on one client connection.             *)

\* Requests a client sends.  Protocol addresses 10009..10012 are the two
\* command registers, 201 the status register, 521 the operating time;
\* protocol address 40010 is translated to internal address 40010 as well;
\* 200, 10008 and 10013 are translated to unmapped addresses.
ReadRanges == {<<10009, 2>>, <<40010, 1>>, <<201, 2>>, <<521, 4>>, <<10012, 2>>}
WriteSingles == {<<10010, 381>>, <<10012, 26>>, <<202, 35>>, <<10013, 1>>}
WriteMultiples == {<<10009, <<0, 381>>>>, <<10012, <<26, 7>>>>,
                   <<10008, <<5, 1>>>>, <<200, <<3, 4>>>>}
Requests ==
    {Query(fc, r[1], r[2], <<>>) : fc \in {3, 4}, r \in ReadRanges} \cup
    {Query(6, w[1], w[2], <<>>) : w \in WriteSingles} \cup
    {Query(16, w[1], Len(w[2]), w[2]) : w \in WriteMultiples}

\* The requests of a client while the simulation runs: the stop command, the
\* acknowledgement, and reads of the commands and of the operating time.
ClientRequests ==
    {Query(6, 10010, 381, <<>>), Query(6, 10012, 26, <<>>),
     Query(3, 10009, 2, <<>>), Query(3, 521, 4, <<>>)}

MaxRequests == 2

\* The words stored at the addresses of the register at address a.
WordsAt(lmap, mmap, a) == [i \in 1..lmap[a].num_regs |-> mmap[WordAddr(a, i - 1)]]

\* The multi-word registers whose words a read of nb words from start covers.
CoveredRegisters(lmap, start, nb) ==
    {a \in DOMAIN lmap : /\ lmap[a].num_regs > 1
                         /\ a >= start
                         /\ a + lmap[a].num_regs <= start + nb}

\* modbus_receive returns a request; the function code, address and count
\* are parsed, and for a read the address is translated and the loop set up.
HReceiveFrom(requests) ==
    /\ Alive
    /\ h_pc = "receive"
    /\ h_served < MaxRequests
    /\ h_served' = h_served + 1
    /\ \E q \in requests :
          /\ query' = q
          /\ IF q.function_code \in {3, 4}
             THEN /\ h_pc' = "read"
                  /\ h_internal_addr' = protocolToInternal(q.addr)
                  /\ held' = [a \in CoveredRegisters(logical_register_map,
                                                     protocolToInternal(q.addr), q.nb)
                                |-> {WordsAt(logical_register_map, modbus_register_map, a)}]
             ELSE /\ h_pc' = "reply"
                  /\ h_internal_addr' = 0
                  /\ held' = EmptyMap
    /\ h_i' = 0
    /\ h_all_valid' = TRUE
    /\ h_fetched' = <<>>
    /\ h_reply' = NoReply
    /\ UNCHANGED <<lockvars, lifevars, store, call, tab_registers, evars, last_written>>

HReceive == HReceiveFrom(Requests)
HReceiveClient == HReceiveFrom(ClientRequests)

\* One iteration of the read loop: getRegisterValue(internal_addr + i, value).
HReadWord ==
    /\ Alive
    /\ h_pc = "read"
    /\ h_i < query.nb
    /\ LET r == getRegisterValue(modbus_register_map, (h_internal_addr + h_i) % AddrMod)
       IN  IF r.ok
           THEN /\ tab_registers' = TabWrite(tab_registers, query.addr + h_i, <<r.value>>)
                /\ h_fetched' = Append(h_fetched, r.value)
                /\ UNCHANGED h_all_valid
           ELSE /\ h_all_valid' = FALSE
                /\ UNCHANGED <<tab_registers, h_fetched>>
    /\ h_i' = h_i + 1
    /\ UNCHANGED <<lockvars, lifevars, store, call, h_pc, query, h_internal_addr, h_reply, h_served,
                   evars, history>>

\* After the read loop, or at once for a write: the exception for a read that
\* met an unmapped word, else modbus_reply; when a response to a write went
\* out (reply_rc > 0) the address is translated for the write to the store.
HReply ==
    /\ Alive
    /\ \/ h_pc = "read" /\ h_i >= query.nb
       \/ h_pc = "reply"
    /\ IF query.function_code \in {3, 4} /\ ~h_all_valid
       THEN /\ h_reply' = ExceptionReply(2)
            /\ h_pc' = "receive"
            /\ UNCHANGED <<tab_registers, h_internal_addr, h_i>>
       ELSE LET r == modbus_reply(query, tab_registers)
            IN  /\ tab_registers' = r.tab
                /\ h_reply' = r.reply
                /\ h_i' = 0
                /\ IF query.function_code \in {6, 16}
                   THEN /\ h_pc' = "write"
                        /\ h_internal_addr' = protocolToInternal(query.addr)
                   ELSE /\ h_pc' = "receive"
                        /\ UNCHANGED h_internal_addr
    /\ UNCHANGED <<lockvars, lifevars, store, call, query, h_all_valid, h_fetched, h_served, evars, history>>

\* The word a write request carries for its i-th register.
WriteValue(q, i) == IF q.function_code = 6 THEN q.nb ELSE q.values[i + 1]
\* The number of setRegisterValue calls a write request makes.
WriteCount(q) == IF q.function_code = 6 THEN 1 ELSE q.nb

\* One setRegisterValue of a write request: the only one of a write single,
\* one iteration of the loop of a write multiple.
HWriteWord ==
    /\ Alive
    /\ h_pc = "write"
    /\ h_i < WriteCount(query)
    /\ LET address == (h_internal_addr + h_i) % AddrMod
       IN  \E owner \in OwnerChoices(logical_register_map, address) :
              LET r == setRegisterValue(logical_register_map, modbus_register_map,
                                        owner, address, WriteValue(query, h_i))
              IN  /\ logical_register_map' = r.lmap
                  /\ modbus_register_map' = r.mmap
                  /\ last_written' = IF r.ok
                                     THEN StoreWords(last_written, address,
                                                     <<WriteValue(query, h_i)>>)
                                     ELSE last_written
    /\ h_i' = h_i + 1
    /\ h_pc' = IF h_i + 1 >= WriteCount(query) THEN "receive" ELSE "write"
    /\ UNCHANGED <<lockvars, lifevars, call, tab_registers, query, h_internal_addr, h_all_valid,
                   h_fetched, h_reply, h_served, evars, held>>

NextHandler ==
    \/ HReceive
    \/ HReadWord
    \/ HReply
    \/ HWriteWord

SpecHandler == InitSystem /\ [][NextHandler]_vars

---------------------------------------------------------------------------
(* The address translation alone: protocolToInternal applied to a request's *)
(* address, and internalToProtocol applied to the result.                   *)

\* Protocol addresses of requests: the first ones, and those around the
\* limits the two functions branch on.
ProtocolAddrs ==
    (0..9) \cup (9995..10015) \cup (19995..20005) \cup (29995..30010) \cup
    (39995..40010) \cup (49995..50005) \cup (AddrMod - 6..AddrMod - 1)

\* uint16_t internal_addr = protocolToInternal(addr).
TProtocolToInternal ==
    /\ \E addr \in ProtocolAddrs :
          /\ query' = Query(3, addr, 1, <<>>)
          /\ h_internal_addr' = protocolToInternal(addr)
    /\ call' = NoCall
    /\ UNCHANGED <<lockvars, lifevars, store, tab_registers, h_pc, h_i, h_all_valid,
                   h_fetched, h_reply, h_served, evars, history>>

\* internalToProtocol(internal_addr).
TInternalToProtocol ==
    /\ query.function_code # 0
    /\ call' = [NoCall EXCEPT !.op = "internalToProtocol", !.address = h_internal_addr,
                               !.ok = TRUE, !.word = internalToProtocol(h_internal_addr)]
    /\ UNCHANGED <<lockvars, lifevars, store, hvars, evars, history>>

NextTranslate ==
    \/ TProtocolToInternal
    \/ TInternalToProtocol

SpecTranslate == InitSystem /\ [][NextTranslate]_vars

---------------------------------------------------------------------------
(* SimulationEngine::updateSimulationState: one tick, a step for each call *)
(* of the store (each holds data_mutex for its own body only).             *)

MaxTicks == 2

\* Inputs of a tick: the fault comparison, calculatePowerOutput, the
\* derating, rand() % 10 and the measurements.
FaultDraws(params) == IF params.fault_probability_percent > 0 THEN {FALSE, TRUE} ELSE {FALSE}
PowerDraws == {0, 4000}
DeratingDraws == {1000, 500}
EventDraws == {0, 9}
Measurements == {Measurement(23000, 23099, 22900, 5000, 250, <<0, 0>>),
                 Measurement(24150, 22000, 23000, 4990, 655, <<2, -1>>)}
\* The place in the publish list of the first value a measurement is part
\* of (30777, the power of L1).
FirstMeasured == 8

\* A setLogicalValue call of the simulation thread, in the variant that
\* publishes the operating status to the command register 40009 instead of
\* 40029 ...
EngineSetLogicalValueMutCommand(address, value, pc) ==
    LET target == IF address = 40029 THEN 40009 ELSE address
        r == setLogicalValue(logical_register_map, modbus_register_map, target, value)
        words == IF target \in DOMAIN logical_register_map /\ ~r.threw
                 THEN {WordAddr(target, i) :
                          i \in 0..(logical_register_map[target].num_regs - 1)}
                 ELSE {}
    IN  /\ logical_register_map' = r.lmap
        /\ modbus_register_map' = r.mmap
        /\ e_pc' = IF r.threw THEN "terminated" ELSE pc
        /\ last_written' = [a \in DOMAIN last_written \ words |-> last_written[a]]
        /\ held' = IF h_pc = "read"
                   THEN [a \in DOMAIN held |-> held[a] \cup {WordsAt(r.lmap, r.mmap, a)}]
                   ELSE held

\* ... and the source's; pc: where the thread goes on when the call returns.
EngineSetLogicalValue(address, value, pc) ==
    LET r == setLogicalValue(logical_register_map, modbus_register_map, address, value)
        words == IF address \in DOMAIN logical_register_map /\ ~r.threw
                 THEN {WordAddr(address, i) :
                          i \in 0..(logical_register_map[address].num_regs - 1)}
                 ELSE {}
    IN  /\ logical_register_map' = r.lmap
        /\ modbus_register_map' = r.mmap
        /\ e_pc' = IF r.threw THEN "terminated" ELSE pc
        /\ last_written' = [a \in DOMAIN last_written \ words |-> last_written[a]]
        /\ held' = IF h_pc = "read"
                   THEN [a \in DOMAIN held |-> held[a] \cup {WordsAt(r.lmap, r.mmap, a)}]
                   ELSE held

\* time(0), localtime, and the daily yield reset.
ETickStart ==
    /\ e_pc = "idle"
    /\ e_ticks < MaxTicks
    /\ e_ticks' = e_ticks + 1
    /\ tick_began' = [state |-> current_state,
                      command |-> IF 40009 \in DOMAIN last_written
                                  THEN last_written[40009] ELSE -1]
    /\ IF last_daily_reset_day # now.mday /\ now.hour = config.daily_yield_reset_hour
       THEN /\ EngineSetLogicalValue(30517, Variant("U64", <<0, 0>>), "rd_op")
            /\ last_daily_reset_day' = IF e_pc' = "terminated" THEN last_daily_reset_day
                                       ELSE now.mday
       ELSE /\ e_pc' = "rd_op"
            /\ UNCHANGED <<store, last_daily_reset_day, history>>
    /\ UNCHANGED <<lockvars, lifevars, call, hvars, config, wvars, now, current_state, connection_timer, e_i, e_loc>>

\* auto op_state_val = data_model->getLogicalValue(40009).
EReadOpState ==
    /\ e_pc = "rd_op"
    /\ e_loc' = [e_loc EXCEPT !.op_state_val = getLogicalValue(logical_register_map, 40009)]
    /\ e_pc' = "rd_ack"
    /\ UNCHANGED <<lockvars, lifevars, store, call, hvars, config, wvars, now, current_state, last_daily_reset_day,
                   connection_timer, e_i, e_ticks, tick_began, history>>

\* auto ack_error_val = data_model->getLogicalValue(40011), and the two
\* std::get<uint32_t>.
EReadAckError ==
    /\ e_pc = "rd_ack"
    /\ LET ack_error_val == getLogicalValue(logical_register_map, 40011)
           op_state == GetOr(e_loc.op_state_val, "U32", 295)
           ack_error == GetOr(ack_error_val, "U32", 0)
       IN  /\ e_loc' = [e_loc EXCEPT !.ack_error_val = ack_error_val,
                                     !.op_state = op_state.val,
                                     !.ack_error = ack_error.val]
           /\ e_pc' = IF op_state.threw \/ ack_error.threw THEN "terminated" ELSE "fsm"
    /\ UNCHANGED <<lockvars, lifevars, store, call, hvars, config, wvars, now, current_state, last_daily_reset_day,
                   connection_timer, e_i, e_ticks, tick_began, history>>

\* The state machine in the variant that resets the acknowledgement
\* whenever it reads 26 ...
EStateMachineFromMutClearAlways(powers, deratings, events) ==
    /\ e_pc = "fsm"
    /\ \E fault \in FaultDraws(config), power \in powers, derating \in deratings,
          event \in events :
          LET next_state == NextDeviceState(current_state, e_loc.op_state,
                                            e_loc.ack_error, fault)
          IN  /\ current_state' = next_state
              /\ e_loc' = [e_loc EXCEPT
                             !.status = TickStatus(next_state, config, power, derating, event)]
    /\ IF e_loc.ack_error = 26
       THEN EngineSetLogicalValue(40011, Variant("U32", 0), "acc")
       ELSE /\ e_pc' = "acc"
            /\ UNCHANGED <<store, history>>
    /\ e_i' = 1
    /\ UNCHANGED <<lockvars, lifevars, call, hvars, config, wvars, now, last_daily_reset_day, connection_timer,
                   e_ticks, tick_began>>

\* ... and the source's: the state machine with its reset of the
\* acknowledgement, and the dynamic values of the tick (steps 2 to 6), drawn
\* from the given sets.
EStateMachineFrom(powers, deratings, events) ==
    /\ e_pc = "fsm"
    /\ \E fault \in FaultDraws(config), power \in powers, derating \in deratings,
          event \in events :
          LET next_state == NextDeviceState(current_state, e_loc.op_state,
                                            e_loc.ack_error, fault)
          IN  /\ current_state' = next_state
              /\ e_loc' = [e_loc EXCEPT
                             !.status = TickStatus(next_state, config, power, derating, event)]
    /\ IF e_loc.ack_error = 26 /\ current_state = "ERROR"
       THEN EngineSetLogicalValue(40011, Variant("U32", 0), "acc")
       ELSE /\ e_pc' = "acc"
            /\ UNCHANGED <<store, history>>
    /\ e_i' = 1
    /\ UNCHANGED <<lockvars, lifevars, call, hvars, config, wvars, now, last_daily_reset_day, connection_timer,
                   e_ticks, tick_began>>

EStateMachine == EStateMachineFrom(PowerDraws, DeratingDraws, EventDraws)

\* One getLogicalValue of step 7 with its std::get; after the last one the
\* accumulators are advanced.
EReadAccumulator ==
    /\ e_pc = "acc"
    /\ LET rd == AccumulatorReads[e_i]
           got == GetOr(getLogicalValue(logical_register_map, rd[1]), rd[2],
                        IF rd[2] = "U64" THEN <<0, 0>> ELSE 0)
           val == IF rd[3] = "op_time" THEN AddU64(got.val, WholeSeconds(config))
                  ELSE got.val
           loc == [e_loc EXCEPT ![rd[3]] = val]
           acc == Accumulate(loc, config, connection_timer)
       IN  IF got.threw
           THEN /\ e_pc' = "terminated"
                /\ UNCHANGED <<e_loc, e_i, connection_timer>>
           ELSE IF e_i < Len(AccumulatorReads)
           THEN /\ e_loc' = loc
                /\ e_i' = e_i + 1
                /\ UNCHANGED <<e_pc, connection_timer>>
           ELSE /\ e_loc' = acc.loc
                /\ connection_timer' = acc.timer
                /\ e_pc' = "pub"
                /\ e_i' = 1
    /\ UNCHANGED <<lockvars, lifevars, store, call, hvars, config, wvars, now, current_state, last_daily_reset_day,
                   e_ticks, tick_began, history>>

\* One setLogicalValue of step 9; after the last one the thread sleeps until
\* the next tick.  The measurements are locals no store call before the
\* first one that publishes them depends on: they are drawn there.
EPublish ==
    /\ e_pc = "pub"
    /\ \E meas \in IF e_i = FirstMeasured THEN Measurements ELSE {e_loc.meas} :
         \E loc \in {[e_loc EXCEPT !.meas = meas]} :
         \E list \in {PublishList(loc, config, now.time)} :
          LET last == e_i >= Len(list)
          IN  /\ EngineSetLogicalValue(list[e_i][1], list[e_i][2],
                                       IF last THEN "idle" ELSE "pub")
              /\ e_i' = IF last THEN 0 ELSE e_i + 1
              /\ e_loc' = IF last /\ e_pc' = "idle" THEN NoLocals ELSE loc
              /\ tick_began' = IF last /\ e_pc' = "idle" THEN NoTick ELSE tick_began
    /\ UNCHANGED <<lockvars, lifevars, call, hvars, config, wvars, now, current_state, last_daily_reset_day,
                   connection_timer, e_ticks>>

Init == InitSystem

Next ==
    \/ HReceiveClient
    \/ HReadWord
    \/ HReply
    \/ HWriteWord
    \/ ETickStart
    \/ EReadOpState
    \/ EReadAckError
    \/ EStateMachine
    \/ EReadAccumulator
    \/ EPublish

Spec == Init /\ [][Next]_vars

---------------------------------------------------------------------------
(* The simulation thread under a client's commands, over more than one     *)
(* day.                                                                    *)

\* A register list with the command registers and the registers the tick
\* publishes the device status, the contactor, the energy counters and the
\* AC powers to.
ListCommands == << Register(30201, "U32", "RO", 307),
                   Register(30217, "U32", "RO", 51),
                   Register(30513, "U64", "RO", <<0, 1000>>),
                   Register(30517, "U64", "RO", <<0, 40>>),
                   Register(30525, "U64", "RO", <<0, 50>>),
                   Register(30599, "U32", "RO", 7),
                   Register(30775, "S32", "RO", 0),
                   Register(30777, "S32", "RO", 0),
                   Register(30779, "S32", "RO", 0),
                   Register(30781, "S32", "RO", 0),
                   Register(40009, "U32", "RW", 295),
                   Register(40011, "U32", "RW", 0) >>

\* The commands of a client, as write single register requests: 381 (stop)
\* to protocol address 10009, which is translated to the register's address
\* 40009, and to 10010, its low word; 295 (start) to the low word; 26
\* (acknowledge) to the low word of 40011.
CommandRequests ==
    {Query(6, 10009, 381, <<>>), Query(6, 10010, 381, <<>>),
     Query(6, 10010, 295, <<>>), Query(6, 10012, 26, <<>>)}

HReceiveCommand == HReceiveFrom(CommandRequests)

\* Local times of ticks: day 3 at 00h and at 23h, day 4 at 01h.
ClockValues == {[mday |-> 3, hour |-> 0, time |-> 86400],
                [mday |-> 3, hour |-> 23, time |-> 169200],
                [mday |-> 4, hour |-> 1, time |-> 176400]}

\* std::this_thread::sleep_for between two ticks: time passes.  (A tick
\* reads the time once, at its start.)
ClockAdvance ==
    /\ Alive
    /\ e_pc = "idle"
    /\ \E c \in ClockValues : c.time > now.time /\ now' = c
    /\ UNCHANGED <<lockvars, lifevars, store, call, hvars, config, wvars, current_state, last_daily_reset_day,
                   connection_timer, e_pc, e_i, e_loc, e_ticks, tick_began, history>>

\* A tick of a cool inverter (no derating) whose rand() % 10 gives 0.
EStateMachineCool == EStateMachineFrom(PowerDraws, {1000}, {0})

InitEngine ==
    /\ EngineConstructedWith(SimulationParams(1000, 5000, 97, 5, 0))
    /\ logical_register_map = StoreAfterConstruction(ListCommands, config).lmap
    /\ modbus_register_map = StoreAfterConstruction(ListCommands, config).mmap
    /\ call = NoCall
    /\ HandlerIdle
    /\ NoHistory
    /\ ProcessRunning

NextEngine ==
    \/ HReceiveCommand
    \/ HReply
    \/ HWriteWord
    \/ ClockAdvance
    \/ ETickStart
    \/ EReadOpState
    \/ EReadAckError
    \/ EStateMachineCool
    \/ EReadAccumulator
    \/ EPublish

SpecEngine == InitEngine /\ [][NextEngine]_vars

---------------------------------------------------------------------------
(* SimulationEngine::start, stop and run: the running flag and the         *)
(* simulation thread.                                                      *)

\* The engine and the server constructed and no thread started; the calling
\* thread is at pc.
ConstructedAt(pc) ==
    /\ data_mutex = "free"
    /\ in_call = [t \in Threads |-> NotCalling]
    /\ e_running = FALSE
    /\ e_threads = 0
    /\ s_running = FALSE
    /\ s_pc = "none"
    /\ server_socket = "none"
    /\ connection = "none"
    /\ m_pc = pc

\* while (running), in the variant that never looks at the flag ...
RunLoopTestMutAlways(flag) == TRUE

\* ... and in the source's.
RunLoopTest(flag) == flag

\* start: from pc `from`, returning to pc `to`.
EngineStart(from, to) ==
    /\ m_pc = from
    /\ m_pc' = to
    /\ IF e_running
       THEN UNCHANGED <<e_running, e_threads>>
       ELSE /\ e_running' = TRUE
            /\ e_threads' = e_threads + 1
    /\ UNCHANGED <<lockvars, s_running, s_pc, server_socket, connection, store, call,
                   hvars, evars, history>>

\* stop, up to simulation_thread.join(): from pc `from`; the join is at pc
\* `join`, the return at pc `to`.
EngineStop(from, join, to) ==
    /\ m_pc = from
    /\ IF ~e_running
       THEN /\ m_pc' = to
            /\ UNCHANGED e_running
       ELSE /\ e_running' = FALSE
            /\ m_pc' = IF e_threads > 0 THEN join ELSE to
    /\ UNCHANGED <<lockvars, e_threads, s_running, s_pc, server_socket, connection,
                   store, call, hvars, evars, history>>

\* simulation_thread.join() returns once run has returned.
EngineJoin(join, to) ==
    /\ m_pc = join
    /\ e_pc = "exited"
    /\ e_pc' = "idle"
    /\ e_threads' = e_threads - 1
    /\ m_pc' = to
    /\ UNCHANGED <<lockvars, e_running, s_running, s_pc, server_socket, connection,
                   store, call, hvars, config, wvars, now, current_state,
                   last_daily_reset_day, connection_timer, e_i, e_loc, e_ticks,
                   tick_began, history>>

\* run: the loop test succeeds and the tick begins ...
ERunTick ==
    /\ e_threads > 0
    /\ RunLoopTest(e_running)
    /\ ETickStart

\* ... or it fails and run returns.
ERunExit ==
    /\ e_threads > 0
    /\ e_pc = "idle"
    /\ ~RunLoopTest(e_running)
    /\ e_pc' = "exited"
    /\ UNCHANGED <<lockvars, lifevars, store, call, hvars, config, wvars, now,
                   current_state, last_daily_reset_day, connection_timer, e_i, e_loc,
                   e_ticks, tick_began, history>>

\* The steps of the simulation thread.
SimulationThread ==
    \/ ERunTick
    \/ ERunExit
    \/ EReadOpState
    \/ EReadAckError
    \/ EStateMachineCool
    \/ EReadAccumulator
    \/ EPublish

\* A thread that calls start and stop in any order.
InitEngineLife ==
    /\ EngineConstructedWith(SimulationParams(1000, 5000, 97, 5, 0))
    /\ logical_register_map = StoreAfterConstruction(ListCommands, config).lmap
    /\ modbus_register_map = StoreAfterConstruction(ListCommands, config).mmap
    /\ call = NoCall
    /\ HandlerIdle
    /\ NoHistory
    /\ ConstructedAt("caller")

CallStart == EngineStart("caller", "caller")
CallStop == EngineStop("caller", "engine_join", "caller")
StopJoins == EngineJoin("engine_join", "caller")

NextEngineLife ==
    \/ CallStart
    \/ CallStop
    \/ StopJoins
    \/ ERunTick
    \/ ERunExit
    \/ EReadOpState
    \/ EReadAckError
    \/ EStateMachineCool
    \/ EReadAccumulator
    \/ EPublish

\* The scheduler runs the simulation thread and the thread waiting in join;
\* nothing obliges the caller to call.
SpecEngineLife ==
    /\ InitEngineLife
    /\ [][NextEngineLife]_vars
    /\ WF_vars(SimulationThread)
    /\ WF_vars(StopJoins)

---------------------------------------------------------------------------
(* main, signal_handler and ModbusServer::start, stop and run: the process *)
(* from the start of its threads on.  The server thread is modelled at its *)
(* loop tests and blocking calls; what a request does to the store is the  *)
(* subject of HReceive, HReadWord, HWriteWord and HReply.                  *)

InitProcess ==
    /\ EngineConstructedWith(SimulationParams(1000, 5000, 97, 5, 0))
    /\ logical_register_map = StoreAfterConstruction(ListCommands, config).lmap
    /\ modbus_register_map = StoreAfterConstruction(ListCommands, config).mmap
    /\ call = NoCall
    /\ HandlerIdle
    /\ NoHistory
    /\ ConstructedAt("start_engine")

\* g_sim_engine_ptr->start().
MStartEngine == EngineStart("start_engine", "start_server")

\* g_modbus_server_ptr->start(modbus_port): the context, the mapping or the
\* listening socket cannot be had and start returns false, or the socket
\* listens and the server thread is started; main then installs
\* signal_handler and enters its loop.
MStartServer ==
    /\ m_pc = "start_server"
    /\ \/ /\ m_pc' = "fail_stop"
          /\ UNCHANGED <<s_running, s_pc, server_socket>>
       \/ /\ s_running' = TRUE
          /\ server_socket' = "listening"
          /\ s_pc' = "outer"
          /\ m_pc' = "loop"
    /\ UNCHANGED <<lockvars, e_running, e_threads, connection, store, call, hvars,
                   evars, history>>

\* start failed: g_sim_engine_ptr->stop(); return 1.
MFailStop == EngineStop("fail_stop", "fail_join", "returned")
MFailJoin == EngineJoin("fail_join", "returned")

\* SIGINT or SIGTERM arrives while main sleeps in while (true):
\* signal_handler runs on the main thread.
MSignal ==
    /\ m_pc = "loop"
    /\ m_pc' = "sig_server_stop"
    /\ UNCHANGED <<lockvars, e_running, e_threads, s_running, s_pc, server_socket,
                   connection, store, call, hvars, evars, history>>

\* ModbusServer::stop up to server_thread.join(): the running flag is
\* cleared and the listening socket shut down and closed.
ServerStop ==
    /\ m_pc = "sig_server_stop"
    /\ IF ~s_running
       THEN /\ m_pc' = "sig_engine_stop"
            /\ UNCHANGED <<s_running, server_socket>>
       ELSE /\ s_running' = FALSE
            /\ server_socket' = "closed"
            /\ m_pc' = "sig_server_join"
    /\ UNCHANGED <<lockvars, e_running, e_threads, s_pc, connection, store, call,
                   hvars, evars, history>>

\* server_thread.join() returns once run has returned; stop then closes and
\* frees the context.
ServerJoin ==
    /\ m_pc = "sig_server_join"
    /\ s_pc = "exited"
    /\ s_pc' = "none"
    /\ connection' = "none"
    /\ m_pc' = "sig_engine_stop"
    /\ UNCHANGED <<lockvars, e_running, e_threads, s_running, server_socket, store,
                   call, hvars, evars, history>>

\* g_sim_engine_ptr->stop(); signal_handler returns into main's loop.
MStopEngine == EngineStop("sig_engine_stop", "sig_engine_join", "loop")
MJoinEngine == EngineJoin("sig_engine_join", "loop")

\* A step of the server thread from pc `from` to pc `to` that leaves the
\* connection as it is or makes it conn.
ServerStep(from, to, conn) ==
    /\ s_pc = from
    /\ s_pc' = to
    /\ connection' = conn
    /\ UNCHANGED <<lockvars, e_running, e_threads, s_running, server_socket, m_pc,
                   store, call, hvars, evars, history>>

\* while (running), the outer loop of run.
SOuterTest == ServerStep("outer", IF s_running THEN "accept" ELSE "exited", connection)

\* modbus_tcp_accept returns a client's connection ...
SAcceptClient ==
    /\ server_socket = "listening"
    /\ ServerStep("accept", "inner", "open")

\* ... or -1 when the listening socket has been shut down: continue.
SAcceptFails ==
    /\ server_socket = "closed"
    /\ ServerStep("accept", "outer", connection)

\* while (running), the inner loop.
SInnerTest == ServerStep("inner", IF s_running THEN "receive" ELSE "close", connection)

\* modbus_receive returns a request of the client, which is served ...
SReceiveRequest == ServerStep("receive", "inner", connection)

\* ... or -1 when the client has closed the connection: break.
SReceiveDisconnect == ServerStep("receive", "close", connection)

\* modbus_close(ctx) after the inner loop.
SClose == ServerStep("close", "outer", "none")

\* The steps the server thread takes by itself, and those of main.
ServerThread ==
    \/ SOuterTest
    \/ SAcceptFails
    \/ SInnerTest
    \/ SClose

MainThread ==
    \/ MStartEngine
    \/ MStartServer
    \/ MFailStop
    \/ MFailJoin
    \/ ServerStop
    \/ ServerJoin
    \/ MStopEngine
    \/ MJoinEngine

NextProcess ==
    \/ MStartEngine
    \/ MStartServer
    \/ MFailStop
    \/ MFailJoin
    \/ MSignal
    \/ ServerStop
    \/ ServerJoin
    \/ MStopEngine
    \/ MJoinEngine
    \/ SOuterTest
    \/ SAcceptClient
    \/ SAcceptFails
    \/ SInnerTest
    \/ SReceiveRequest
    \/ SReceiveDisconnect
    \/ SClose
    \/ ERunTick
    \/ ERunExit
    \/ EReadOpState
    \/ EReadAckError
    \/ EStateMachineCool
    \/ EReadAccumulator
    \/ EPublish

\* The scheduler runs every thread that can take a step by itself; nothing
\* obliges a signal to arrive, nor a client to connect, send or disconnect.
SpecProcess ==
    /\ InitProcess
    /\ [][NextProcess]_vars
    /\ WF_vars(MainThread)
    /\ WF_vars(ServerThread)
    /\ WF_vars(SimulationThread)

---------------------------------------------------------------------------
(* The simulation thread alone, over stores with and without the registers *)
(* the tick reads and publishes.                                           *)

\* Register lists of a configuration file: no register at all, the command
\* and telemetry registers, and a list that declares 40011 as a U16.
TickLists == {<<>>, ListCommands, ListMixed}

InitTick ==
    /\ EngineConstructedWith(SimulationParams(1000, 5000, 97, 5, 0))
    /\ \E regs \in TickLists :
          /\ logical_register_map = StoreAfterConstruction(regs, config).lmap
          /\ modbus_register_map = StoreAfterConstruction(regs, config).mmap
    /\ call = NoCall
    /\ HandlerIdle
    /\ NoHistory
    /\ ProcessRunning

NextTick ==
    \/ ETickStart
    \/ EReadOpState
    \/ EReadAckError
    \/ EStateMachineCool
    \/ EReadAccumulator
    \/ EPublish

SpecTick == InitTick /\ [][NextTick]_vars

---------------------------------------------------------------------------
(* The simulation thread alone in the middle of a run, under tick          *)
(* intervals of a half, one and one and a half seconds.                    *)

\* update_interval_ms of a configuration file.
IntervalInputs == {500, 1000, 1500}

\* The static connection_timer: 0, and its value after ConnectionPeriod
\* producing ticks with the contactor closed.
TimerInputs == {0, ConnectionPeriod}

\* The registers the tick publishes the event number, the device status,
\* the contactor, the operating time, the grid-connection counter and the
\* AC and DC powers to, holding what a producing tick has published, and
\* the command register holding command.
ListTelemetry(command) ==
    << Register(30197, "U32", "RO", 0),
       Register(30201, "U32", "RO", 307),
       Register(30217, "U32", "RO", 51),
       Register(30521, "U64", "RO", <<0, 100>>),
       Register(30599, "U32", "RO", 7),
       Register(30773, "S32", "RO", 2144),
       Register(30775, "S32", "RO", 4000),
       Register(30961, "S32", "RO", 1979),
       Register(40009, "U32", "RW", command) >>

\* Between two ticks of a producing inverter.
InitTelemetry ==
    /\ \E interval \in IntervalInputs :
          config = SimulationParams(interval, 5000, 97, 5, 12)
    /\ connection_timer \in TimerInputs
    /\ \E command \in {295, 381} :
          /\ logical_register_map = initialize(ListTelemetry(command)).lmap
          /\ modbus_register_map = initialize(ListTelemetry(command)).mmap
    /\ now \in ClockInputs
    /\ current_state = "OK"
    /\ current_weather_model_index = 0
    /\ last_weather_change_time = 0
    /\ last_daily_reset_day = -1
    /\ e_pc = "idle"
    /\ e_i = 0
    /\ e_loc = NoLocals
    /\ e_ticks = 0
    /\ tick_began = NoTick
    /\ call = NoCall
    /\ HandlerIdle
    /\ NoHistory
    /\ ProcessRunning

\* What calculatePowerOutput returns: nothing at night, less and a little
\* more than the threshold of 100 W, and full sun.
TelemetryPowers == {0, 50, 150, 4000}

EStateMachineTelemetry == EStateMachineFrom(TelemetryPowers, DeratingDraws, EventDraws)

NextTelemetry ==
    \/ ETickStart
    \/ EReadOpState
    \/ EReadAckError
    \/ EStateMachineTelemetry
    \/ EReadAccumulator
    \/ EPublish

SpecTelemetry == InitTelemetry /\ [][NextTelemetry]_vars

---------------------------------------------------------------------------
(* calculatePowerOutput called at times of the year, under the weather     *)
(* models of a configuration.                                              *)

\* config.sim_params.weather_models, power_multiplier in percent, and
\* weather_change_interval_seconds.
WeatherModels == << [name |-> "Sunny", power_multiplier |-> 100],
                    [name |-> "Cloudy", power_multiplier |-> 30] >>
WeatherChangeInterval == 3600

\* time(0) and localtime at a whole hour of a day of the year.
PowerClock(yday, hour) ==
    [mday |-> CASE yday = 0 -> 1 [] yday = 80 -> 22 [] yday = 171 -> 21,
     hour |-> hour, yday |-> yday, time |-> 86400 * (yday + 1) + 3600 * hour]
PowerClocks ==
    {PowerClock(yday, hour) : yday \in {0, 80, 171},
                              hour \in {0, 4, 5, 8, 10, 12, 16, 17, 20, 21}}

\* variation_dis(rng), in thousandths.
VariationDraws == {900, 1000, 1100}

\* A call of calculatePowerOutput: the weather changes when the call is in
\* daylight and the change interval has passed.
CallCalculatePowerOutput ==
    \E c \in PowerClocks, random_variation \in VariationDraws :
       LET changes == /\ ~OutsideDaylight(1000 * c.hour, c.yday)
                      /\ c.time - last_weather_change_time > WeatherChangeInterval
       IN  /\ c.time >= now.time
           /\ now' = c
           /\ current_weather_model_index' \in
                 IF changes THEN 0..(Len(WeatherModels) - 1) ELSE {current_weather_model_index}
           /\ last_weather_change_time' = IF changes THEN c.time ELSE last_weather_change_time
           /\ call' = [op |-> "calculatePowerOutput",
                       hour_of_day |-> 1000 * c.hour, day_of_year |-> c.yday,
                       random_variation |-> random_variation,
                       ret |-> calculatePowerOutput(
                                  config,
                                  WeatherModels[current_weather_model_index' + 1].power_multiplier,
                                  1000 * c.hour, c.yday, random_variation)]
           /\ UNCHANGED <<lockvars, lifevars, store, hvars, config, current_state, last_daily_reset_day,
                          connection_timer, e_pc, e_i, e_loc, e_ticks, tick_began, history>>

InitPower == InitEngine

NextPower == CallCalculatePowerOutput

SpecPower == InitPower /\ [][NextPower]_vars

---------------------------------------------------------------------------
(* Properties of the store.                                                *)

\* Big-endian word composition: the most significant word at the lowest
\* address, read as a value of the given kind.
BigEndian(kind, ws) ==
    CASE kind = "U16" -> ws[1]
      [] kind = "S16" -> IF ws[1] > SMax(WordBase) THEN ws[1] - WordBase ELSE ws[1]
      [] kind = "U32" -> WordBase * ws[1] + ws[2]
      [] kind = "S32" -> IF ws[1] * WordBase + ws[2] > SMax(B2)
                         THEN WordBase * ws[1] + ws[2] - B2
                         ELSE WordBase * ws[1] + ws[2]
      [] kind = "U64" -> <<WordBase * ws[1] + ws[2], WordBase * ws[3] + ws[4]>>
      [] kind = "S64" -> <<IF ws[1] * WordBase + ws[2] > SMax(B2)
                           THEN WordBase * ws[1] + ws[2] - B2
                           ELSE WordBase * ws[1] + ws[2],
                           WordBase * ws[3] + ws[4]>>

\* The words getRegisterValue reads at addr .. addr + n - 1, when all are mapped.
WordsMapped(addr, n) ==
    \A i \in 0..(n - 1) : getRegisterValue(modbus_register_map, addr + i).ok
WordsRead(addr, n) ==
    [i \in 1..n |-> getRegisterValue(modbus_register_map, addr + i - 1).value]

\* A setLogicalValue call on a mapped register with a value of its kind.
IsSetLogicalOfKind(c, lmap) ==
    /\ c.op = "setLogicalValue"
    /\ c.address \in DOMAIN lmap
    /\ c.arg.kind = lmap[c.address].type

\* C1: after setLogicalValue(addr, v) on a mapped register with a value of
\* the register's kind, getLogicalValue(addr) returns exactly v, and the
\* words getRegisterValue reads at addr .. addr+num_regs-1 compose to v in
\* big-endian word order.
C1_RoundTrip ==
    IsSetLogicalOfKind(call, logical_register_map) =>
        LET n == logical_register_map[call.address].num_regs
        IN  /\ getLogicalValue(logical_register_map, call.address).has
            /\ getLogicalValue(logical_register_map, call.address).value = call.arg
            /\ WordsMapped(call.address, n)
            /\ BigEndian(call.arg.kind, WordsRead(call.address, n)) = call.arg.val

C1_Witness ==
    /\ IsSetLogicalOfKind(call, logical_register_map)
    /\ call.arg = Variant("S64", <<SMin(B2), 5>>)
    /\ modbus_register_map[call.address] = WordBase \div 2

\* A register's stored value is the big-endian composition of its words.
RegisterConsistent(a) ==
    LET r == logical_register_map[a]
    IN  /\ WordsMapped(a, r.num_regs)
        /\ r.value = Variant(r.type, BigEndian(r.type, WordsRead(a, r.num_regs)))

\* C2: after initialize and any sequence of successful setRegisterValue and
\* setLogicalValue calls, every logical register's stored value equals the
\* big-endian composition of the words stored at its num_regs addresses.
\* (A register holding a variant of another kind than its type is what a
\* setLogicalValue that threw leaves behind; such a call is not successful.)
C2_ValueMatchesWords ==
    \A a \in DOMAIN logical_register_map :
        logical_register_map[a].value.kind = logical_register_map[a].type
            => RegisterConsistent(a)

AllAccess(lmap, owners, accesses) ==
    owners # {} /\ \A o \in owners : lmap[o].access \in accesses

\* C3: setRegisterValue(addr, w) fails and changes no word and no logical
\* value when no register owns addr or the register owning it is RO; it
\* succeeds when addr lies in the range of an RW or WO register.
C3_SetRegisterStep ==
    call'.op = "setRegisterValue" /\ vars' # vars =>
        LET owners == Owners(logical_register_map, call'.address)
        IN  /\ owners = {} \/ AllAccess(logical_register_map, owners, {"RO"})
                => ~call'.ok /\ UNCHANGED store
            /\ AllAccess(logical_register_map, owners, {"RW", "WO"}) => call'.ok

SetLogicalOnRO ==
    /\ call'.op = "setLogicalValue"
    /\ vars' # vars
    /\ call'.address \in DOMAIN logical_register_map
    /\ logical_register_map[call'.address].access = "RO"

\* C4 as claimed: setLogicalValue on the address of an RO register always
\* fails and changes neither the stored logical value nor its words.
C4_Original == [][SetLogicalOnRO => ~call'.ok /\ UNCHANGED store]_vars

\* C4 as amended: setLogicalValue makes no access check, so on an RO register
\* a value of the register's kind is stored, value and words; setRegisterValue
\* never changes the logical value of an RO register, which changes through
\* setLogicalValue only.
C4_Step ==
    /\ SetLogicalOnRO /\ call'.arg.kind = logical_register_map[call'.address].type
        => /\ call'.ok
           /\ logical_register_map'[call'.address].value = call'.arg
           /\ BigEndian(call'.arg.kind,
                  [i \in 1..logical_register_map[call'.address].num_regs |->
                      modbus_register_map'[call'.address + i - 1]]) = call'.arg.val
    /\ \A a \in DOMAIN logical_register_map :
          /\ logical_register_map[a].access = "RO"
          /\ logical_register_map'[a].value # logical_register_map[a].value
          => call'.op = "setLogicalValue"

C4_ROChangesOnlyByLogical == [][C4_Step]_vars

C4_Witness ==
    /\ call.op = "setLogicalValue"
    /\ call.ok
    /\ call.address \in DOMAIN logical_register_map
    /\ logical_register_map[call.address].access = "RO"
    /\ logical_register_map[call.address].value = Variant("S32", SMin(B2) + 3)

\* The word ranges of the registers at a and b have an address in common.
RangesOverlap(lmap, a, b) ==
    \E w \in a..(a + lmap[a].num_regs - 1) : w >= b /\ w < b + lmap[b].num_regs

\* C21: initialize rejects or flags a register list with overlapping ranges
\* or a repeated address; it does not load such a list: no two registers of
\* the store have overlapping word ranges.
C21_NoOverlapLoaded ==
    \A a, b \in DOMAIN logical_register_map :
        a # b => ~RangesOverlap(logical_register_map, a, b)

\* C22: setLogicalValue reports an error and leaves the whole store
\* unchanged when the address is not the start address of a register or the
\* kind of the value differs from the register's kind.
C22_SetLogicalErrors ==
    [][/\ call'.op = "setLogicalValue"
       /\ vars' # vars
       /\ \/ call'.address \notin DOMAIN logical_register_map
          \/ call'.arg.kind # logical_register_map[call'.address].type
       => ~call'.ok /\ UNCHANGED store]_vars

\* C28: setLogicalValue performs no access check: after a call with a value
\* of the register's kind on a mapped RO register the call has succeeded, the
\* register holds the value and its words are the words of the value.
C28_NoAccessCheck ==
    /\ IsSetLogicalOfKind(call, logical_register_map)
    /\ logical_register_map[call.address].access = "RO"
    => /\ call.ok
       /\ logical_register_map[call.address].value = call.arg
       /\ WordsAt(logical_register_map, modbus_register_map, call.address)
             = Deconstruct(call.arg.kind, call.arg.val)

C28_Witness ==
    /\ call.op = "setLogicalValue"
    /\ call.address = 30775
    /\ logical_register_map[30775].access = "RO"
    /\ logical_register_map[30775].value = Variant("S32", -2)
    /\ WordsAt(logical_register_map, modbus_register_map, 30775) = <<WordBase - 1, WordBase - 2>>

\* C29: a successful setRegisterValue(addr, w) changes the word at addr, to
\* w, and the logical value of one register owning addr, to the composition
\* of its words; every other word, every other register, and the set of
\* mapped word addresses are unchanged.
C29_Step ==
    call'.op = "setRegisterValue" /\ vars' # vars /\ call'.ok =>
        /\ DOMAIN modbus_register_map' = DOMAIN modbus_register_map
        /\ modbus_register_map'[call'.address] = call'.word
        /\ \A w \in DOMAIN modbus_register_map \ {call'.address} :
              modbus_register_map'[w] = modbus_register_map[w]
        /\ DOMAIN logical_register_map' = DOMAIN logical_register_map
        /\ \E o \in Owners(logical_register_map, call'.address) :
              /\ logical_register_map' =
                    [logical_register_map EXCEPT ![o].value = logical_register_map'[o].value]
              /\ logical_register_map'[o].value =
                    Variant(logical_register_map[o].type,
                            BigEndian(logical_register_map[o].type,
                                      WordsAt(logical_register_map', modbus_register_map', o)))

C29_SetRegisterFrame == [][C29_Step]_vars

C29_Witness ==
    /\ call.op = "setRegisterValue"
    /\ call.ok
    /\ call.address = 40010
    /\ 30201 \in DOMAIN logical_register_map
    /\ logical_register_map[40009].value = Variant("U32", 381)

---------------------------------------------------------------------------
(* Properties of the request handler.                                      *)

\* The logical address the specification gives a request's protocol address.
LogicalAddress(function_code, protocol_addr) ==
    IF function_code = 4 THEN protocol_addr + 30001 ELSE protocol_addr + 40001

\* C5: the handler translates a request's protocol address by function code:
\* function 0x04 gives protocol address + 30001, functions 0x03, 0x06 and
\* 0x10 give protocol address + 40001.
C5_TranslationByFunction ==
    h_pc \in {"read", "write"} =>
        h_internal_addr = LogicalAddress(query.function_code, query.addr) % AddrMod

\* The store addresses a request of count words is served from.
TargetAddrs(count) == {(h_internal_addr + i) % AddrMod : i \in 0..(count - 1)}
Mapped(a) == getRegisterValue(modbus_register_map, a).ok

\* C6: a read request (0x03 or 0x04) of count words is answered with
\* exception 0x02 and no data when any of its translated addresses is
\* unmapped, and with exactly the count words fetched from the store, in
\* protocol address order, when all are mapped.
C6_ReadReply ==
    query.function_code \in {3, 4} /\ h_reply # NoReply =>
        IF \E a \in TargetAddrs(query.nb) : ~Mapped(a)
        THEN h_reply = ExceptionReply(2)
        ELSE /\ h_reply = DataReply(h_fetched)
             /\ Len(h_fetched) = query.nb
             /\ \A i \in 1..query.nb :
                   h_fetched[i] = modbus_register_map[(h_internal_addr + i - 1) % AddrMod]

\* A word a client's write is refused at: unmapped, or owned by an RO register.
Refused(a) ==
    \/ Owners(logical_register_map, a) = {}
    \/ \E o \in Owners(logical_register_map, a) : logical_register_map[o].access = "RO"
WriteTargets(q) ==
    {(protocolToInternal(q.addr) + i) % AddrMod : i \in 0..(WriteCount(q) - 1)}

\* C7: a write-multiple request (0x10) with at least one target word that is
\* unmapped or owned by an RO register changes none of its target words and
\* nothing else in the store.
C7_WriteMultipleAllOrNothing ==
    [][query.function_code = 16 /\ h_pc = "write"
       /\ (\E a \in WriteTargets(query) : Refused(a))
       => UNCHANGED store]_vars

\* C8: a write request (0x06 or 0x10) with a target word that is unmapped or
\* owned by an RO register is answered with exception 0x02, never with a
\* success reply.
C8_RefusedWriteException ==
    /\ query.function_code \in {6, 16}
    /\ h_reply # NoReply
    /\ \E a \in WriteTargets(query) : Refused(a)
    => h_reply = ExceptionReply(2)

---------------------------------------------------------------------------
(* Properties of the handler and the engine running together.              *)

\* The word at address a of the 32-bit value the engine read at address.
WordSeen(opt, address, a) ==
    IF a = address THEN opt.value.val \div WordBase ELSE opt.value.val % WordBase
EngineSees(opt, address) ==
    \A a \in {address, address + 1} \cap DOMAIN last_written :
        opt.has /\ WordSeen(opt, address, a) = last_written[a]

\* C9: once the handler has applied a successful client write of word w to
\* address a, and until another write to a, every read of a fetches w and the
\* reply carries the fetched words, and the engine's reads of its command
\* registers see w: the handler serves no value from a cache of its own.
C9_Step ==
    /\ h_pc = "read" /\ h_i' = h_i + 1
       /\ ((h_internal_addr + h_i) % AddrMod) \in DOMAIN last_written
       => h_fetched' = Append(h_fetched, last_written[(h_internal_addr + h_i) % AddrMod])
    /\ h_pc = "read" /\ h_reply' # NoReply /\ h_all_valid
       => h_reply' = DataReply(h_fetched)
    /\ e_pc = "rd_op" /\ e_pc' = "rd_ack" => EngineSees(e_loc'.op_state_val, 40009)
    /\ e_pc = "rd_ack" /\ e_pc' # "rd_ack" => EngineSees(e_loc'.ack_error_val, 40011)

C9_WriteVisible == [][C9_Step]_vars

\* The words of a reply that belong to the register at address a.
ReplyWords(a) ==
    [i \in 1..logical_register_map[a].num_regs |-> h_reply.data[a - h_internal_addr + i]]

\* C10: a read request covering all the words of a multi-word register,
\* interleaved in any way with the engine's setLogicalValue calls on it,
\* returns all the words of a value the register held during the request:
\* the value before an update or the value after it, never a mix.
C10_NoTornRead ==
    h_reply.kind = "data" => \A a \in DOMAIN held : ReplyWords(a) \in held[a]

---------------------------------------------------------------------------
(* Properties of the device state machine.                                 *)

\* The step of a tick that runs the state machine, and the last step of a
\* tick.
StateMachineStep == e_pc = "fsm" /\ e_pc' # "fsm"
TickCompletes == e_pc = "pub" /\ e_pc' = "idle"

\* The register at address holds the 32-bit value v, as its logical value
\* and in its words.
Holds32(lmap, mmap, address, v) ==
    /\ address \in DOMAIN lmap
    /\ lmap[address].value = Variant("U32", v)
    /\ WordsAt(lmap, mmap, address) = <<v \div WordBase, v % WordBase>>

\* C11: from state OK, a tick that reads 381 from the operating-state
\* command register ends in OFF, whatever the random fault draw.
C11_StopBeatsFault ==
    [][StateMachineStep /\ current_state = "OK" /\ e_loc.op_state = 381
       => current_state' = "OFF"]_vars

C11_Witness ==
    /\ e_pc = "acc"
    /\ tick_began.state = "OK"
    /\ e_loc.op_state = 381
    /\ current_state = "OFF"
    /\ FaultDraws(config) = {FALSE, TRUE}

\* C12, as stated: from every state and every value of the acknowledge
\* register, a tick that reads 381 from the operating-state command register
\* ends in OFF.
C12_Original ==
    [][StateMachineStep /\ e_loc.op_state = 381 => current_state' = "OFF"]_vars

\* C12, amended: a tick that reads 381 from the operating-state command
\* register ends in OFF, except a tick that starts in ERROR and reads 26 from
\* the acknowledge register: that tick ends in OK.
C12_StopUnlessAcknowledged ==
    [][StateMachineStep /\ e_loc.op_state = 381
       => current_state' = IF current_state = "ERROR" /\ e_loc.ack_error = 26
                           THEN "OK" ELSE "OFF"]_vars

C12_Witness ==
    /\ e_pc = "acc"
    /\ tick_began.state = "ERROR"
    /\ e_loc.op_state = 381
    /\ e_loc.ack_error = 26
    /\ current_state = "OK"

\* C13: a tick that starts in ERROR and reads 26 from 40011 moves to OK and
\* writes 0 to 40011 (logical value and words) in its state machine step, and
\* ends in OK; when it ends 40011 still holds 0 unless a client has written
\* to the register's words after the reset.
C13_AcknowledgeStep ==
    /\ StateMachineStep /\ current_state = "ERROR" /\ e_loc.ack_error = 26
       => /\ current_state' = "OK"
          /\ Holds32(logical_register_map', modbus_register_map', 40011, 0)
    /\ TickCompletes /\ tick_began.state = "ERROR" /\ e_loc.ack_error = 26
       => /\ current_state' = "OK"
          /\ {40011, 40012} \cap DOMAIN last_written' = {}
             => Holds32(logical_register_map', modbus_register_map', 40011, 0)

C13_Acknowledge == [][C13_AcknowledgeStep]_vars

C13_Witness ==
    /\ e_pc = "pub"
    /\ tick_began.state = "ERROR"
    /\ e_loc.ack_error = 26
    /\ current_state = "OK"
    /\ Holds32(logical_register_map, modbus_register_map, 40011, 0)

\* C14: a tick that starts in OFF and reads 295 from the operating-state
\* command register ends in OK.
C14_StartFromOff ==
    [][StateMachineStep /\ current_state = "OFF" /\ e_loc.op_state = 295
       => current_state' = "OK"]_vars

\* C15: the state becomes ERROR from OK only: no step moves it from OFF to
\* ERROR.
C15_FaultOnlyFromOk ==
    [][current_state' = "ERROR" /\ current_state # "ERROR" => current_state = "OK"]_vars

\* C16: the device state is OK until the first tick, and it is always one of
\* OFF, OK and ERROR: WARNING is never reached.
C16_ThreeStates ==
    /\ current_state \in DeviceStates \ {"WARNING"}
    /\ e_ticks = 0 => current_state = "OK"

C16_Witness ==
    /\ e_ticks = MaxTicks
    /\ e_pc = "idle"
    /\ current_state = "ERROR"

\* C17: starting from OK, once the handler has processed a client's write
\* single register request (0x06) of 381 addressed to the operating-state
\* command register (40009) and one tick has then completed, 30201 reads 303
\* and 30217 reads 311.
C17_StopScenario ==
    [][TickCompletes /\ tick_began.state = "OK" /\ tick_began.command = 381
       => /\ Holds32(logical_register_map', modbus_register_map', 30201, 303)
          /\ Holds32(logical_register_map', modbus_register_map', 30217, 311)]_vars

---------------------------------------------------------------------------
(* Properties of the tick's telemetry.                                     *)

\* The first step of a tick.
TickStarts == e_pc = "idle" /\ e_ticks' = e_ticks + 1

\* The daily yield register holds 0, as its logical value and in its words.
DailyYieldZero(lmap, mmap) ==
    /\ 30517 \in DOMAIN lmap
    /\ lmap[30517].value = Variant("U64", <<0, 0>>)
    /\ WordsAt(lmap, mmap, 30517) = <<0, 0, 0, 0>>

Published(address) == logical_register_map[address].value.val

\* C19: in every tick the powers published to 30777, 30779 and 30781 add
\* up to the power published to 30775, also after the random imbalance.
C19_PhaseSum ==
    /\ e_pc = "pub"
    /\ e_i > 10
    /\ {30775, 30777, 30779, 30781} \subseteq DOMAIN logical_register_map
    => Published(30777) + Published(30779) + Published(30781) = Published(30775)

\* C20: calculatePowerOutput returns exactly 0 outside the sunrise-sunset
\* window, and for every time, day, weather model and random variation its
\* result never exceeds max_power_watts.
C20_PowerWindow ==
    call.op = "calculatePowerOutput"
    => /\ OutsideDaylight(call.hour_of_day, call.day_of_year) => call.ret = 0
       /\ call.ret <= config.max_power_watts

\* A step of the simulation thread.
EngineStep == <<e_pc, e_i, e_ticks>>' # <<e_pc, e_i, e_ticks>>

\* v <= w for two values of a counter: 32-bit numbers, or 64-bit numbers as
\* pairs of a high and a low half.
CounterLeq(kind, v, w) ==
    IF kind = "U64" THEN v[1] < w[1] \/ (v[1] = w[1] /\ v[2] <= w[2]) ELSE v <= w

\* C30: a tick whose AC power is not above 100 W leaves feed-in time
\* (30525), total yield (30513), the grid-connection counter (30599) and,
\* apart from the daily reset at its start, daily yield (30517) unchanged; a
\* tick whose AC power is above 100 W never decreases any of them.
C30_Step ==
    EngineStep /\ ~TickStarts =>
        \A a \in {30525, 30513, 30517, 30599} \cap DOMAIN logical_register_map :
            IF e_pc = "pub" /\ e_loc.status.ac_power_total > 100
            THEN /\ logical_register_map'[a].type = logical_register_map[a].type
                 /\ CounterLeq(logical_register_map[a].type,
                               logical_register_map[a].value.val,
                               logical_register_map'[a].value.val)
            ELSE /\ logical_register_map'[a] = logical_register_map[a]
                 /\ WordsAt(logical_register_map', modbus_register_map', a)
                       = WordsAt(logical_register_map, modbus_register_map, a)

C30_Accumulators == [][C30_Step]_vars

C30_Witness ==
    /\ e_pc = "idle"
    /\ e_ticks = MaxTicks
    /\ current_state = "OFF"
    /\ logical_register_map[30525].value = Variant("U64", <<0, 51>>)
    /\ logical_register_map[30513].value = Variant("U64", <<0, 1001>>)
    /\ logical_register_map[30517].value = Variant("U64", <<0, 1>>)
    /\ logical_register_map[30599].value = Variant("U32", 7)

\* C23: a tick never ends in a hard error, whatever registers the store
\* contains; a tick that finds no operating-state command register goes on
\* with 295, one that finds no acknowledge-error register with 0.
C23_Step ==
    /\ e_pc' # "terminated"
    /\ e_pc = "rd_ack" /\ e_pc' # "rd_ack"
       => /\ 40009 \notin DOMAIN logical_register_map => e_loc'.op_state = 295
          /\ 40011 \notin DOMAIN logical_register_map => e_loc'.ack_error = 0

C23_NoHardError == [][C23_Step]_vars

---------------------------------------------------------------------------
(* Properties of starting and stopping the threads.                        *)

\* C25: stop on a running engine clears the running flag; no tick starts
\* while the flag is clear; a stop that waits in join eventually returns
\* with the thread joined and the flag clear; a call that leaves the flag
\* as it was (start on a running engine, stop on a stopped one) changes
\* neither the flag nor the threads; at most one simulation thread exists.
C25_StopEngine ==
    /\ [](e_threads \in {0, 1})
    /\ [][(m_pc = "caller" /\ m_pc' = "engine_join") => e_running /\ ~e_running']_vars
    /\ [][TickStarts => e_running /\ e_threads = 1]_vars
    /\ [][(m_pc = "caller" /\ m_pc' = "caller") => 
            (e_running' = e_running => e_threads' = e_threads)]_vars
    /\ (m_pc = "engine_join") ~> (m_pc = "caller" /\ e_threads = 0 /\ ~e_running)

\* The engine ran a tick, was stopped and its thread joined.
C25_Witness ==
    /\ m_pc = "caller"
    /\ ~e_running
    /\ e_threads = 0
    /\ e_ticks = 1
    /\ e_pc = "idle"

\* C26: a stop of the server that waits in join eventually returns with the
\* server thread joined, wherever the server loop is.
C26_ServerStopReturns ==
    (m_pc = "sig_server_join") ~> (m_pc = "sig_engine_stop" /\ s_pc = "none")

\* C27: after a signal the server and the engine are stopped and joined and
\* the process has exited.
C27_SignalExits ==
    (m_pc = "sig_server_stop") ~>
        (m_pc = "returned" /\ s_pc = "none" /\ e_threads = 0 /\ ~s_running /\ ~e_running)

---------------------------------------------------------------------------
(* Properties of the operating time, the grid-connection counter and the   *)
(* status registers.                                                       *)

\* The step of a tick that publishes to address.
Publishes(address) ==
    /\ e_pc = "pub"
    /\ PublishList(e_loc, config, now.time)[e_i][1] = address
    /\ address \in DOMAIN logical_register_map

\* C31: every tick advances the operating time (30521) by
\* update_interval_ms / 1000 seconds: a thousand times the growth of the
\* register is the interval in milliseconds.
C31_OperatingTime ==
    [][Publishes(30521) =>
         1000 * (logical_register_map'[30521].value.val[2]
                   - logical_register_map[30521].value.val[2])
            = config.update_interval_ms]_vars

\* The last step of the accumulators (step 7) counts a grid connection.
CountsConnection ==
    /\ e_pc = "acc"
    /\ e_pc' = "pub"
    /\ e_loc'.grid_connections # Published(30599)

\* C32: the grid-connection counter (30599) is incremented only at the end
\* of a continuous hour with the contactor closed: a tick increments it only
\* if the tick before it published a closed contactor (51 in 30217), and
\* then the counter grows by one.
C32_ContinuousHour ==
    [][CountsConnection =>
         /\ Published(30217) = 51
         /\ e_loc'.grid_connections = Published(30599) + 1]_vars

\* No tick is in progress and at least one has completed.
BetweenTicks == e_pc = "idle" /\ e_ticks > 0

\* C34: after every completed tick the published status registers agree
\* with the engine state.  OFF: device status 303, contactor 311, event
\* number 0, AC and DC powers 0.  ERROR: device status 35, contactor 311,
\* an event number in 1001..1010, AC and DC powers 0.  OK: device status
\* 307, and the contactor is 51 only if the published AC power is above 0.
C34_StatusAgrees ==
    BetweenTicks =>
       CASE current_state = "OFF" ->
              /\ Published(30201) = 303
              /\ Published(30217) = 311
              /\ Published(30197) = 0
              /\ \A a \in {30775, 30773, 30961} : Published(a) = 0
         [] current_state = "ERROR" ->
              /\ Published(30201) = 35
              /\ Published(30217) = 311
              /\ Published(30197) \in 1001..1010
              /\ \A a \in {30775, 30773, 30961} : Published(a) = 0
         [] current_state = "OK" ->
              /\ Published(30201) = 307
              /\ Published(30217) = 51 => Published(30775) > 0
         [] OTHER -> FALSE

\* A tick has completed in ERROR with the last of the ten event numbers.
C34_Witness ==
    /\ BetweenTicks
    /\ current_state = "ERROR"
    /\ Published(30201) = 35
    /\ Published(30217) = 311
    /\ Published(30197) = 1010
    /\ Published(30775) = 0

---------------------------------------------------------------------------
(* Properties of the address translation.                                  *)

\* C33: internalToProtocol gives back the protocol address that
\* protocolToInternal was applied to, and no other protocol address is
\* translated to the same logical address.
C33_Inverse ==
    /\ call.op = "internalToProtocol" => call.word = query.addr
    /\ query.function_code # 0 =>
          \A other \in ProtocolAddrs \ {query.addr} :
             protocolToInternal(other) # h_internal_addr

---------------------------------------------------------------------------
(* Properties of the command registers under ticks and client requests.    *)

\* The register at address a, or its words, change in the step.
RegisterChanges(a) ==
    \/ logical_register_map'[a] # logical_register_map[a]
    \/ WordsAt(logical_register_map', modbus_register_map', a)
          # WordsAt(logical_register_map, modbus_register_map, a)

\* C35: the simulation thread changes the acknowledge-error register
\* (40011) only in a tick that started in ERROR and read 26 from it, and
\* then to 0, moving the state to OK; a tick that started in ERROR and
\* finds 26 in the register reads 26, moves the state to OK and resets the
\* register to 0.  So a 26 written while the state is not ERROR stays until
\* a tick starts in ERROR, and that tick clears the fault.
C35_Step ==
    /\ EngineStep /\ RegisterChanges(40011)
       => /\ tick_began.state = "ERROR"
          /\ e_loc.ack_error = 26
          /\ current_state' = "OK"
          /\ Holds32(logical_register_map', modbus_register_map', 40011, 0)
    /\ e_pc = "rd_ack" /\ e_pc' # "rd_ack" /\ tick_began.state = "ERROR"
         /\ Holds32(logical_register_map, modbus_register_map, 40011, 26)
       => e_loc'.ack_error = 26
    /\ StateMachineStep /\ tick_began.state = "ERROR" /\ e_loc.ack_error = 26
       => /\ current_state' = "OK"
          /\ Holds32(logical_register_map', modbus_register_map', 40011, 0)

C35_AcknowledgeKept == [][C35_Step]_vars

\* A tick that started in OK has read 26 from the register and has raised a
\* fault; the register still holds 26.
C35_Witness ==
    /\ e_pc = "pub"
    /\ tick_began.state = "OK"
    /\ e_loc.ack_error = 26
    /\ current_state = "ERROR"
    /\ Holds32(logical_register_map, modbus_register_map, 40011, 26)

\* C36: no step of the simulation thread changes the operating-state
\* command register (40009), its logical value or its words, so that its
\* value changes only through client writes; and the tick reads the value
\* the register holds.
C36_Step ==
    /\ EngineStep => ~RegisterChanges(40009)
    /\ e_pc = "rd_op" /\ e_pc' = "rd_ack"
       => /\ e_loc'.op_state_val.has
          /\ e_loc'.op_state_val.value = logical_register_map[40009].value

C36_CommandKept == [][C36_Step]_vars

\* A client has written the stop command and two ticks have completed: the
\* register still holds it.
C36_Witness ==
    /\ e_pc = "idle"
    /\ e_ticks = MaxTicks
    /\ h_served > 0
    /\ current_state = "OFF"
    /\ Holds32(logical_register_map, modbus_register_map, 40009, 381)

===========================================================================
